---- MODULE Spec2Model ----
(***************************************************************************)
(* A model of web-crypto-client: the BufferTools byte codec, the Database  *)
(* wrapper around IndexedDB and the Crypto session class with its key      *)
(* lifecycle, its symmetric envelope (encryptData / decryptData) and its   *)
(* hybrid object envelope (encryptObject / decryptObject).                 *)
(*                                                                         *)
(* Strings and byte buffers are sequences of symbols.  A symbol is either  *)
(* one character / byte, Ch(c), or an opaque run: a stretch of characters  *)
(* or bytes whose content is fixed by a platform function (the cipher text *)
(* of an AES or RSA encryption, the text JSON.stringify puts between the   *)
(* braces of an object, the base64 text of btoa, a key's modulus).  The    *)
(* platform functions are modelled symbolically: a cipher text names the   *)
(* algorithm, key, iv and plain text it was made of, and decrypts only     *)
(* with these.  Every opaque run is longer than any cut position the       *)
(* program uses (32 characters at most), so a cut that reaches a run       *)
(* falls inside it.                                                        *)
(***************************************************************************)
EXTENDS Integers, Sequences, FiniteSets, TLC

(***************************************************************************)
(* JavaScript values                                                       *)
(***************************************************************************)
Null == [t |-> "null"]
Undefined == [t |-> "undefined"]
Str(s) == [t |-> "string", s |-> s]
Bool(b) == [t |-> "boolean", b |-> b]
Num(i) == [t |-> "number", i |-> i]
IsStr(v) == v.t = "string"

\* results of a computation that may throw
Ok(v) == [ok |-> TRUE, v |-> v]
Throw(e) == [ok |-> FALSE, e |-> e]

\* the settled state of a promise, or a synchronous throw
Resolved(v) == [kind |-> "resolved", v |-> v]
Rejected(e) == [kind |-> "rejected", e |-> e]
Thrown(e) == [kind |-> "thrown", e |-> e]
\* a function that is no promise returns a value
Returned(v) == [kind |-> "returned", v |-> v]

(***************************************************************************)
(* Symbols                                                                 *)
(***************************************************************************)
Ch(c) == [c |-> c]
IsCh(x) == DOMAIN x = {"c"}
Chars(codes) == [i \in 1..Len(codes) |-> Ch(codes[i])]
IsRun(x, kind) == (~IsCh(x)) /\ x.k = kind

LBrace == 123
RBrace == 125
LBracket == 91
RBracket == 93
Dollar == 36
LineFeed == 10
CarriageReturn == 13

\* the part of an opaque run before / after a cut at character n
FragHead(x, n) == [k |-> "frag", of |-> x, part |-> "head", at |-> n]
FragTail(x, n) == [k |-> "frag", of |-> x, part |-> "tail", at |-> n]

\* String.prototype.substr( 0, n ) and TypedArray.prototype.subarray( 0, n ), n >= 0
RECURSIVE Take(_, _)
Take(s, n) ==
    IF n <= 0 \/ Len(s) = 0 THEN << >>
    ELSE IF IsCh(Head(s)) THEN <<Head(s)>> \o Take(Tail(s), n - 1)
    ELSE <<FragHead(Head(s), n)>>

\* String.prototype.substr( n ) and TypedArray.prototype.subarray( n ), n >= 0
RECURSIVE Drop(_, _)
Drop(s, n) ==
    IF n <= 0 \/ Len(s) = 0 THEN s
    ELSE IF IsCh(Head(s)) THEN Drop(Tail(s), n - 1)
    ELSE <<FragTail(Head(s), n)>> \o Tail(s)

AllCh(s) == \A i \in 1..Len(s) : IsCh(s[i])

(***************************************************************************)
(* JSON                                                                    *)
(***************************************************************************)
EmptyObj == [t |-> "object", kind |-> "empty"]
\* { id: i }, an object of the caller
PlainObj(i) == [t |-> "object", kind |-> "plain", id |-> i]
\* { data: v }
DataObj(v) == [t |-> "object", kind |-> "data", data |-> v]
ArrayOf(items) == [t |-> "array", items |-> items]
\* the JSON Web Key of an RSA key with modulus n; d: it holds the private parts
Jwk(n, d) == [t |-> "object", kind |-> "jwk", n |-> n, d |-> d]

TypeofObject(v) == v.t \in {"object", "array", "null"}

NullText == Chars(<<110, 117, 108, 108>>)

\* JSON.stringify: the text between the braces of a non-empty object is one
\* opaque run (it holds no raw line terminator: JSON.stringify escapes them)
RECURSIVE JSONstringify(_)
JSONstringify(v) ==
    IF v.t = "null" THEN NullText
    ELSE IF v.t = "array" THEN
        <<Ch(LBracket)>>
            \o (IF Len(v.items) = 0 THEN << >> ELSE JSONstringify(v.items[1]))
            \o <<Ch(RBracket)>>
    ELSE IF v.kind = "empty" THEN <<Ch(LBrace), Ch(RBrace)>>
    ELSE <<Ch(LBrace), [k |-> "json", of |-> v], Ch(RBrace)>>

\* JSON.parse, on the texts JSON.stringify makes; a SyntaxError for any other
RECURSIVE JSONparse(_)
JSONparse(s) ==
    IF s = NullText THEN Ok(Null)
    ELSE IF Len(s) = 2 /\ s[1] = Ch(LBrace) /\ s[2] = Ch(RBrace) THEN Ok(EmptyObj)
    ELSE IF Len(s) = 3 /\ s[1] = Ch(LBrace) /\ s[3] = Ch(RBrace) /\ IsRun(s[2], "json")
        THEN Ok(s[2].of)
    ELSE IF Len(s) = 2 /\ s[1] = Ch(LBracket) /\ s[2] = Ch(RBracket)
        THEN Ok(ArrayOf(<< >>))
    ELSE IF Len(s) > 2 /\ s[1] = Ch(LBracket) /\ s[Len(s)] = Ch(RBracket) THEN
        LET inner == JSONparse(SubSeq(s, 2, Len(s) - 1))
        IN  IF inner.ok THEN Ok(ArrayOf(<<inner.v>>)) ELSE inner
    ELSE Throw("SyntaxError")

(***************************************************************************)
(* BufferTools                                                             *)
(***************************************************************************)
\* BufferTools.concat( ...dataBuffers )
RECURSIVE concat(_)
concat(dataBuffers) ==
    IF Len(dataBuffers) = 0 THEN << >>
    ELSE Head(dataBuffers) \o concat(Tail(dataBuffers))

\* a subarray that takes its bounds as they are
NoClamp(len, pos) == pos

\* TypedArray.prototype.subarray clamps its bounds; a negative one counts from the end
ClampPos(len, pos) ==
    IF pos < 0 THEN (IF len + pos < 0 THEN 0 ELSE len + pos)
    ELSE IF pos > len /\ len >= 0 THEN len ELSE pos

\* the length of a buffer of known bytes; -1 for one holding an opaque run
ByteLength(buf) == IF AllCh(buf) THEN Len(buf) ELSE -1

splitInTwo(buf12, splitPos) ==
    LET pos == ClampPos(ByteLength(buf12), splitPos)
    IN  <<Take(buf12, pos), Drop(buf12, pos)>>

\* a buffer of seven-bit bytes
fromAscii7(dataString) ==
    [i \in 1..Len(dataString) |->
        IF IsCh(dataString[i]) THEN Ch(dataString[i].c % 128) ELSE dataString[i]]

\* Uint8Array keeps a char code modulo 256
fromAscii(dataString) ==
    [i \in 1..Len(dataString) |->
        IF IsCh(dataString[i]) THEN Ch(dataString[i].c % 256) ELSE dataString[i]]

\* String.fromCharCode of every byte
toAscii(dataBuffer) ==
    [i \in 1..Len(dataBuffer) |->
        IF IsCh(dataBuffer[i]) THEN Ch(dataBuffer[i].c) ELSE dataBuffer[i]]

HexDigits == <<48, 49, 50, 51, 52, 53, 54, 55, 56, 57, 97, 98, 99, 100, 101, 102>>

\* a string that keeps its case
KeepCase(c) == c

\* String.prototype.toLowerCase, on the letters A-Z
ToLowerCase(c) == IF c >= 65 /\ c <= 90 THEN c + 32 ELSE c

\* digits.indexOf( ch ): 0..15, or -1
DigitIndex(c) ==
    IF \E d \in 1..16 : HexDigits[d] = c
    THEN (CHOOSE d \in 1..16 : HexDigits[d] = c) - 1
    ELSE -1

\* the number of characters of a string: an opaque run of hex digits holds an
\* even number of them, a part of one cut at n holds n (head) or the rest (tail)
RECURSIVE OddLength(_)
OddLength(s) ==
    IF Len(s) = 0 THEN FALSE
    ELSE LET x == Head(s)
             odd == IF IsCh(x) THEN TRUE
                    ELSE IF x.k = "frag" THEN x.at % 2 = 1
                    ELSE FALSE
         IN  odd # OddLength(Tail(s))

RECURSIVE FromHexDigits(_)
FromHexDigits(str) ==
    IF Len(str) = 0 THEN Ok(<< >>)
    ELSE IF IsCh(str[1]) THEN
        IF IsCh(str[2]) THEN
            LET d1 == DigitIndex(ToLowerCase(str[1].c))
                d2 == DigitIndex(ToLowerCase(str[2].c))
                rest == FromHexDigits(SubSeq(str, 3, Len(str)))
            IN  IF d1 = -1 \/ d2 = -1 THEN Throw("Error")
                ELSE IF rest.ok THEN Ok(<<Ch(16 * d1 + d2)>> \o rest.v)
                ELSE rest
        ELSE
            \* a digit pairs with the first digit of a run: bytes of no known value
            LET d1 == DigitIndex(ToLowerCase(str[1].c))
                rest == FromHexDigits(SubSeq(str, 3, Len(str)))
            IN  IF d1 = -1 THEN Throw("Error")
                ELSE IF rest.ok THEN Ok(<<[k |-> "shifted", of |-> str[2]]>> \o rest.v)
                ELSE rest
    ELSE
        LET x == str[1]
            rest == FromHexDigits(Tail(str))
            bytes == IF x.k = "hex" THEN x.of ELSE <<[k |-> "unhex", of |-> x]>>
        IN  IF x.k \notin {"hex", "frag"} THEN Throw("Error")
            ELSE IF rest.ok THEN Ok(bytes \o rest.v)
            ELSE rest

fromHex(dataString) ==
    IF OddLength(dataString) THEN Throw("Error") ELSE FromHexDigits(dataString)

\* the hex digits of a run of known bytes are known, those of an opaque run
\* are one run
RECURSIVE toHex(_)
toHex(dataBuffer) ==
    IF Len(dataBuffer) = 0 THEN << >>
    ELSE LET x == Head(dataBuffer)
         IN  (IF IsCh(x)
              THEN <<Ch(HexDigits[(x.c \div 16) + 1]), Ch(HexDigits[(x.c % 16) + 1])>>
              ELSE <<[k |-> "hex", of |-> <<x>>]>>)
             \o toHex(Tail(dataBuffer))

(***************************************************************************)
(* BufferTools.fromObject and BufferTools.toObject                         *)
(*                                                                         *)
(* rnd is what the random source returns during one call: cfg, the three   *)
(* bytes of noiseConfig, and noise, a pattern the noise buffer repeats.    *)
(***************************************************************************)
NoiseMin == 15
NoiseSpan == 50
NoiseFill == 32
NonNoiseCharacters == <<LBrace, RBrace, 0>>

NoiseLength(r) == (r % NoiseSpan) + NoiseMin

\* a replacement that is the random byte, whatever it is
RawReplacement(r) == r

\* noiseConfig[2]: the replacement for non-noise characters
NoiseReplacement(r) ==
    IF \E k \in 1..Len(NonNoiseCharacters) : NonNoiseCharacters[k] = r
    THEN NoiseFill ELSE r

ReplaceByte(buf, c, repl) ==
    [i \in 1..Len(buf) |-> IF buf[i] = Ch(c) THEN Ch(repl) ELSE buf[i]]

\* noise that keeps its braces and zero bytes
NoFilter(buf, from, repl) == buf

\* the loop over nonNoiseCharacters[k], k = from..2
RECURSIVE FilterNoise(_, _, _)
FilterNoise(buf, from, repl) ==
    IF from > Len(NonNoiseCharacters) THEN buf
    ELSE FilterNoise(ReplaceByte(buf, NonNoiseCharacters[from], repl), from + 1, repl)

RandomNoise(rnd, len) ==
    [i \in 1..len |-> Ch(rnd.noise[((i - 1) % Len(rnd.noise)) + 1])]

fromObject(dataObject, addNoise, rnd) ==
    IF ~TypeofObject(dataObject) THEN Throw("Error")
    ELSE LET dataBuffer == fromAscii(JSONstringify(dataObject))
         IN  IF ~addNoise THEN Ok(dataBuffer)
             ELSE LET before == NoiseLength(rnd.cfg[1])
                      after == NoiseLength(rnd.cfg[2])
                      repl == NoiseReplacement(rnd.cfg[3])
                      noiseBuffer == FilterNoise(RandomNoise(rnd, before + after), 1, repl)
                      buf13 == splitInTwo(noiseBuffer, before)
                  IN  Ok(concat(<<buf13[1], dataBuffer, buf13[2]>>))

IsLineTerminator(x) == IsCh(x) /\ x.c \in {LineFeed, CarriageReturn}

\* the match of /^[^{]*({.+})[^}]*$/ : the group opens at the first "{" and
\* closes at the last "}", with one character at least and no line terminator
\* between them; << >> when the string does not match
BraceGroup(s) ==
    LET opens == {i \in 1..Len(s) : s[i] = Ch(LBrace)}
        closes == {i \in 1..Len(s) : s[i] = Ch(RBrace)}
    IN  IF opens = {} \/ closes = {} THEN << >>
        ELSE LET first == CHOOSE i \in opens : \A j \in opens : i <= j
                 last == CHOOSE i \in closes : \A j \in closes : i >= j
             IN  IF last >= first + 2
                    /\ \A i \in (first + 1)..(last - 1) : ~IsLineTerminator(s[i])
                 THEN SubSeq(s, first, last)
                 ELSE << >>

toObject(dataBuffer) ==
    LET dataString == toAscii(dataBuffer)
        matches == BraceGroup(dataString)
    IN  IF Len(matches) = 0 THEN Throw("Error")
        ELSE LET parsed == JSONparse(matches)
             IN  IF parsed.ok THEN parsed ELSE Throw("Error")

(***************************************************************************)
(* The crypto provider (window.crypto.subtle), symbolically                *)
(***************************************************************************)
\* the n member of a key's JSON Web Key: the modulus, base64url
ModulusText(id) == <<[k |-> "mod", id |-> id]>>
IsModulusText(s) == Len(s) = 1 /\ IsRun(s[1], "mod")

RsaKey(type, id, extractable, usages) ==
    [t |-> "key", type |-> type, mod |-> id, extractable |-> extractable,
     usages |-> usages]

AesKey(alg, raw, extractable) ==
    [t |-> "key", type |-> "secret", alg |-> alg, raw |-> raw,
     extractable |-> extractable, usages |-> {"encrypt", "decrypt"}]

IsCryptoKey(v) == v.t = "key"

\* subtle.generateKey( CryptoAsymmetricAlgorithm, extractable, [ "encrypt", "decrypt" ] ):
\* the public key of a pair is extractable whatever was asked for
SubtleGenerateKeyPair(id, extractable) ==
    [publicKey |-> RsaKey("public", id, TRUE, {"encrypt"}),
     privateKey |-> RsaKey("private", id, extractable, {"decrypt"})]

\* subtle.exportKey( "jwk", key )
SubtleExportJwk(key) ==
    IF ~IsCryptoKey(key) THEN Throw("TypeError")
    ELSE IF ~key.extractable THEN Throw("InvalidAccessError")
    ELSE Ok(Jwk(ModulusText(key.mod), key.type = "private"))

\* subtle.importKey( "jwk", jwk, CryptoAsymmetricAlgorithm, extractable, usages )
SubtleImportJwk(jwk, extractable, usages) ==
    IF ~IsModulusText(jwk.n) THEN Throw("DataError")
    ELSE IF jwk.d /\ usages # {"decrypt"} THEN Throw("SyntaxError")
    ELSE IF (~jwk.d) /\ usages # {"encrypt"} THEN Throw("SyntaxError")
    ELSE Ok(RsaKey(IF jwk.d THEN "private" ELSE "public", jwk.n[1].id,
                   extractable, usages))

RsaCipher(id, plain) == <<[k |-> "rsa", mod |-> id, of |-> plain]>>

\* subtle.encrypt( { name: "RSA-OAEP" }, key, data )
SubtleEncryptRSA(key, data) ==
    IF ~IsCryptoKey(key) THEN Throw("TypeError")
    ELSE IF key.type # "public" \/ "encrypt" \notin key.usages
        THEN Throw("InvalidAccessError")
    ELSE Ok(RsaCipher(key.mod, data))

\* subtle.decrypt( { name: "RSA-OAEP" }, key, data ): the padding check fails
\* under any key but the one the data was encrypted for
SubtleDecryptRSA(key, data) ==
    IF ~IsCryptoKey(key) THEN Throw("TypeError")
    ELSE IF key.type # "private" \/ "decrypt" \notin key.usages
        THEN Throw("InvalidAccessError")
    ELSE IF Len(data) = 1 /\ IsRun(data[1], "rsa") /\ data[1].mod = key.mod
        THEN Ok(data[1].of)
    ELSE Throw("OperationError")

AesKeyBytes == {16, 24, 32}
\* the AES block of 128 bits, in bytes
AesBlock == 128 \div 8

\* the bytes of a generated symmetric key
RawKey(id) == <<[k |-> "raw", id |-> id]>>

\* subtle.importKey( "raw", keyData, sAlgo, false, [ "encrypt", "decrypt" ] )
SubtleImportRaw(keyData, alg) ==
    IF (AllCh(keyData) /\ Len(keyData) \in AesKeyBytes)
        \/ (Len(keyData) = 1 /\ IsRun(keyData[1], "raw"))
    THEN Ok(AesKey(alg, keyData, FALSE))
    ELSE Throw("DataError")

\* subtle.generateKey( sAlgo, true, [ "encrypt", "decrypt" ] )
SubtleGenerateAes(alg, id) == AesKey(alg, RawKey(id), TRUE)

\* subtle.exportKey( "raw", key )
SubtleExportRaw(key) ==
    IF ~key.extractable THEN Throw("InvalidAccessError") ELSE Ok(key.raw)

AesCipher(alg, raw, iv, plain) ==
    <<[k |-> "aes", alg |-> alg, key |-> raw, iv |-> iv, of |-> plain]>>

\* subtle.encrypt( { name: sAlgo.name, iv, tagLength: 128 }, key, data )
SubtleEncryptAes(alg, iv, key, data) ==
    IF alg = "AES-CBC" /\ ByteLength(iv) # AesBlock THEN Throw("OperationError")
    ELSE IF alg = "AES-GCM" /\ Len(iv) = 0 THEN Throw("OperationError")
    ELSE Ok(AesCipher(alg, key.raw, iv, data))

\* what decrypts under a wrong key or from bytes that are no cipher text
GarbageBytes == <<[k |-> "garbage"]>>

\* subtle.decrypt( { name: sAlgo.name, iv, tagLength: 128 }, key, data ): the set
\* of its possible outcomes.  AES-GCM authenticates: anything but the cipher
\* text under its key and iv fails.  AES-CBC only checks the padding of the
\* last block, which wrong bytes pass by chance.
SubtleDecryptAes(alg, iv, key, data) ==
    IF Len(data) = 1 /\ IsRun(data[1], "aes") /\ data[1].alg = alg
        /\ data[1].key = key.raw /\ data[1].iv = iv
    THEN {Ok(data[1].of)}
    ELSE IF alg = "AES-GCM" THEN {Throw("OperationError")}
    ELSE IF ByteLength(iv) # AesBlock THEN {Throw("OperationError")}
    ELSE IF AllCh(data) /\ (Len(data) = 0 \/ Len(data) % AesBlock # 0)
        THEN {Throw("OperationError")}
    ELSE {Throw("OperationError"), Ok(GarbageBytes)}

(***************************************************************************)
(* Crypto: the symmetric envelope, encryptData and decryptData             *)
(***************************************************************************)
KeyBits == 256
IvBytesCBC == 16
IvBytesGCM == 12
PrefixLength == 16

\* "$ceph1-priv$hex$" and "$ceph1-publ$jwk$"
PrivPrefix == Chars(<<36, 99, 101, 112, 104, 49, 45, 112, 114, 105, 118, 36, 104, 101, 120, 36>>)
PublPrefix == Chars(<<36, 99, 101, 112, 104, 49, 45, 112, 117, 98, 108, 36, 106, 119, 107, 36>>)

\* switch ( version ): the algorithm and the length of its iv; name "" for default
VersionAlgo(version) ==
    IF version = 1 THEN [name |-> "AES-CBC", length |-> KeyBits, ivBytes |-> IvBytesCBC]
    ELSE IF version = 2 THEN [name |-> "AES-GCM", length |-> KeyBits, ivBytes |-> IvBytesGCM]
    ELSE [name |-> "", length |-> 0, ivBytes |-> 0]

\* CryptoInterface.getRandomValues( new Uint8Array( ivBytes ) )
RandomIv(rnd, ivBytes) == [i \in 1..ivBytes |-> Ch(rnd.iv)]

\* sKeyBuffer[i] = password.charCodeAt( i % password.length ), in a Uint8Array
DerivedKeyByte(password, i) == password[(i % Len(password)) + 1].c % 256

DeriveKey(password, bits) ==
    [i \in 1..(bits \div 8) |-> Ch(DerivedKeyByte(password, i - 1))]

IsDigit(x) == IsCh(x) /\ x.c >= 48 /\ x.c <= 57

\* the number of decimal digits a string starts with
RECURSIVE LeadingDigits(_)
LeadingDigits(s) ==
    IF Len(s) = 0 \/ ~IsDigit(Head(s)) THEN 0 ELSE 1 + LeadingDigits(Tail(s))

\* parseInt of a string of decimal digits
RECURSIVE ParseInt(_)
ParseInt(digits) ==
    IF Len(digits) = 0 THEN 0
    ELSE 10 * ParseInt(SubSeq(digits, 1, Len(digits) - 1)) + (digits[Len(digits)].c - 48)

\* the match of /^(\d+)\$(.+)$/ ; "." matches no line terminator
VersionTag(s) ==
    LET d == LeadingDigits(s)
    IN  IF d >= 1 /\ Len(s) >= d + 2 /\ s[d + 1] = Ch(Dollar)
           /\ \A i \in (d + 2)..Len(s) : ~IsLineTerminator(s[i])
        THEN [matched |-> TRUE, version |-> ParseInt(SubSeq(s, 1, d)),
              rest |-> SubSeq(s, d + 2, Len(s))]
        ELSE [matched |-> FALSE, version |-> 1, rest |-> s]

\* a version that leaves no digit
NoVersionText(version) == << >>

\* `${version}` for a version of one digit
VersionText(version) == <<Ch(48 + version)>>

\* encryptData( dataString, password, version ): how its promise settles
encryptData(dataString, password, version, rnd) ==
    IF Len(password) = 0 THEN Rejected("Error")
    ELSE LET sAlgo == VersionAlgo(version)
         IN  IF sAlgo.name = "" THEN Rejected("Error")
             ELSE LET iVector == RandomIv(rnd, sAlgo.ivBytes)
                      iVectorString == toHex(iVector)
                      sKeyBuffer == DeriveKey(password, sAlgo.length)
                      dataBuffer == fromObject(DataObj(Str(dataString)), TRUE, rnd)
                      sKey == SubtleImportRaw(sKeyBuffer, sAlgo.name)
                      encryptedBuffer ==
                          SubtleEncryptAes(sAlgo.name, iVector, sKey.v, dataBuffer.v)
                  IN  IF ~sKey.ok THEN Rejected(sKey.e)
                      ELSE IF ~encryptedBuffer.ok THEN Rejected(encryptedBuffer.e)
                      ELSE Resolved(Str(VersionText(version) \o <<Ch(Dollar)>>
                                        \o iVectorString \o toHex(encryptedBuffer.v)))

\* the last .then of decryptData, on the decrypted buffer
DecryptDataUnwrap(dataBuffer) ==
    LET obj == toObject(dataBuffer)
    IN  IF ~obj.ok THEN Throw(obj.e)
        ELSE IF (~TypeofObject(obj.v)) \/ obj.v.t # "object" \/ obj.v.kind # "data"
                \/ ~IsStr(obj.v.data)
            THEN Ok(Null)
        ELSE Ok(obj.v.data)

\* .catch( () => null )
DecryptDataCatch(outcome) == IF outcome.ok THEN Resolved(outcome.v) ELSE Resolved(Null)

\* decryptData( encryptedData, password ): the ways it can end
decryptData(encryptedData, password) ==
    IF Len(encryptedData) = 0 \/ Len(password) = 0 THEN {Rejected("Error")}
    ELSE LET match == VersionTag(encryptedData)
             data == match.rest
             sAlgo == VersionAlgo(match.version)
         IN  IF sAlgo.name = "" THEN {Rejected("Error")}
             ELSE LET iVectorString == Take(data, sAlgo.ivBytes * 2)
                      iVector == fromHex(iVectorString)
                      sKeyBuffer == DeriveKey(password, sAlgo.length)
                      encryptedBuffer == fromHex(Drop(data, sAlgo.ivBytes * 2))
                      sKey == SubtleImportRaw(sKeyBuffer, sAlgo.name)
                  IN  IF ~iVector.ok THEN {Thrown(iVector.e)}
                      ELSE IF ~encryptedBuffer.ok THEN {Thrown(encryptedBuffer.e)}
                      ELSE IF ~sKey.ok THEN {DecryptDataCatch(sKey)}
                      ELSE {DecryptDataCatch(IF plain.ok THEN DecryptDataUnwrap(plain.v)
                                                         ELSE plain) :
                               plain \in SubtleDecryptAes(sAlgo.name, iVector.v, sKey.v,
                                                          encryptedBuffer.v)}

(***************************************************************************)
(* The state: the page's sessions and Database singleton, the databases of *)
(* IndexedDB, the calls in flight, and what the caller got back            *)
(***************************************************************************)
VARIABLES
    sess,       \* cryptosFull: database name -> the Crypto object served for it, or NoSession
    db,         \* the Database singleton: connection, databaseName, storeName
    stores,     \* IndexedDB: database name -> key of the object store -> record
    calls,      \* call slot -> the call in flight in it, or Idle
    last,       \* the call that settled last, with its arguments and outcome
    nextKey,    \* the number of RSA key-pairs the provider has generated
    exported,   \* the private key strings generateKeyPair has made, each with its password
    env,        \* the envelope encryptObject returned last, with the object it holds
    sym         \* the string encryptData returned last, with its data and password

vars == <<sess, db, stores, calls, last, nextKey, exported, env, sym>>

\* bounds of the model
MaxKeys == 2
MaxInFlight == 2

\* the databases of the page's origin, and the one most callers serve
Databases == {"A", "B"}
DbNames == {"A"}
\* the ids of the sessions servePublicObject serves
PublicIds == {"0"}
SessIds == Databases \cup PublicIds
Paths == {"default", "other"}
Slots == 1..MaxInFlight

\* what the random source returns during one call: the byte the iv is filled
\* with, the three bytes of noiseConfig, the pattern of the noise buffer and
\* the symmetric key generateKey makes
Rnds ==
    { [iv |-> 7, cfg |-> <<0, 1, 123>>, noise |-> <<123, 10, 0, 65>>, key |-> 1],
      [iv |-> 200, cfg |-> <<50, 100, 9>>, noise |-> <<125, 13>>, key |-> 2] }

\* what it returns while generateKeyPair encrypts the private key
KeyRnds == { [iv |-> 7, cfg |-> <<0, 1, 123>>, noise |-> <<123, 10, 0, 65>>, key |-> 1] }

\* "a", "aa", "ab", "b" and a password of one character above 255
Passwords ==
    { Chars(<<97>>), Chars(<<97, 97>>), Chars(<<97, 98>>), Chars(<<98>>), Chars(<<353>>) }
\* "a", the password of generateKeyPair, and "a", "aa", "ab" for importPrivateKey
ExportPasswords == { Chars(<<97>>) }
ImportPasswords == { Chars(<<97>>), Chars(<<97, 97>>), Chars(<<97, 98>>) }
Versions == {1, 2}
Objects == { PlainObj(1), EmptyObj, DataObj(Num(1)) }
EnvelopeObjects == { PlainObj(1), EmptyObj }
DataStrings == { << >>, Chars(<<120>>) }

NoSession == [t |-> "none"]
Idle == [op |-> "idle"]
NoResult == [op |-> "none"]
DbName(name) == [t |-> "name", name |-> name]

NoKeys == [public |-> Undefined, private |-> Undefined,
           publicExport |-> Undefined, privateExport |-> Undefined]

\* new Crypto( databaseName ); origin is no field of the object: it records
\* the operation the key fields come from
NewCrypto(databaseName) ==
    [t |-> "crypto", publicKey |-> Null, privateKey |-> Null,
     publicKeyExport |-> Null, privateKeyExport |-> Null,
     dbName |-> databaseName, accessPath |-> "default", origin |-> "none"]

\* new Database()
NewDatabase == [connection |-> Null, databaseName |-> Null, storeName |-> Null]

Init ==
    /\ sess = [s \in SessIds |-> NoSession]
    /\ db = NewDatabase
    /\ stores = [d \in Databases |-> [p \in Paths |-> Null]]
    /\ calls = [c \in Slots |-> Idle]
    /\ last = NoResult
    /\ nextKey = 0
    /\ exported = {}
    /\ env = Null
    /\ sym = Null

AllIdle == \A c \in Slots : calls[c] = Idle
Exists(s) == sess[s] # NoSession

(***************************************************************************)
(* Database                                                                *)
(***************************************************************************)
\* Database.isReady
isReady == db.databaseName # Null /\ db.storeName # Null

\* Database.init; Throw when connected to another database
DatabaseInit(databaseName, storeName) ==
    IF db.connection # Null /\ db.databaseName # databaseName
    THEN Throw("Error")
    ELSE Ok([db EXCEPT !.databaseName = databaseName, !.storeName = storeName])

\* Database.open, its synchronous part: the name of the database it asks
\* IndexedDB to open, Null when the connection exists
OpenRequest == IF db.connection # Null THEN Null ELSE db.databaseName

\* the first step of a call's storage request: open, or the request itself
DbFirstStep(request) == IF OpenRequest = Null THEN request ELSE "open"

\* request.onsuccess of Database.open
DbOpened(c) ==
    /\ calls[c] # Idle /\ calls[c].pc = "open"
    /\ db' = [db EXCEPT !.connection = calls[c].opening]
    /\ calls' = [calls EXCEPT ![c].pc = calls[c].request]
    /\ UNCHANGED <<sess, stores, last, nextKey, exported, env, sym>>

Connected == db.connection # Null /\ db.connection.name \in Databases

\* Database.writeItem, the put request succeeding
DbPut(c) ==
    /\ calls[c] # Idle /\ calls[c].pc = "put"
    /\ Connected
    /\ stores' = [stores EXCEPT ![db.connection.name][calls[c].key] = calls[c].keys]
    /\ calls' = [calls EXCEPT ![c].pc = calls[c].after, ![c].await = Ok(Undefined)]
    /\ UNCHANGED <<sess, db, last, nextKey, exported, env, sym>>

\* Database.readItem, the get request succeeding
DbGet(c) ==
    /\ calls[c] # Idle /\ calls[c].pc = "get"
    /\ Connected
    /\ calls' = [calls EXCEPT ![c].pc = calls[c].after,
                              ![c].await = Ok(stores[db.connection.name][calls[c].key])]
    /\ UNCHANGED <<sess, db, stores, last, nextKey, exported, env, sym>>

\* a delete request that succeeds and leaves the record
DbDeleteKeep(c) ==
    /\ calls[c] # Idle /\ calls[c].pc = "delete"
    /\ Connected
    /\ last' = [op |-> calls[c].op, sess |-> calls[c].sess, args |-> calls[c].args,
                out |-> Resolved(Undefined), held |-> calls[c].held]
    /\ calls' = [calls EXCEPT ![c] = Idle]
    /\ UNCHANGED <<sess, db, stores, nextKey, exported, env, sym>>

\* Database.removeItem, the delete request succeeding: removeKeyPair, which
\* returns the promise of removeItem, resolves
DbDelete(c) ==
    /\ calls[c] # Idle /\ calls[c].pc = "delete"
    /\ Connected
    /\ stores' = [stores EXCEPT ![db.connection.name][calls[c].key] = Null]
    /\ last' = [op |-> calls[c].op, sess |-> calls[c].sess, args |-> calls[c].args,
                out |-> Resolved(Undefined), held |-> calls[c].held]
    /\ calls' = [calls EXCEPT ![c] = Idle]
    /\ UNCHANGED <<sess, db, nextKey, exported, env, sym>>

(***************************************************************************)
(* Calls                                                                   *)
(***************************************************************************)
\* a call in flight: pc names the callback that runs next, await is what the
\* promise it waits for settles with; held is no variable of the code: it
\* records the session as the call found it
Call(op, s, args, pc, await) ==
    [op |-> op, sess |-> s, args |-> args, pc |-> pc, await |-> await,
     held |-> sess[s], keys |-> NoKeys, privateKeyJWK |-> Undefined,
     iVectorBuffer |-> << >>, cipherBuffer |-> << >>, plainBuffer |-> << >>,
     sKey |-> Null, sAlgo |-> VersionAlgo(0),
     key |-> "", opening |-> Null, request |-> "", after |-> ""]

\* the call issues a storage request for `key`; `after` runs when it is done
DbRequest(call, request, key, after) ==
    [call EXCEPT !.pc = DbFirstStep(request), !.request = request,
                 !.opening = OpenRequest, !.key = key, !.after = after]

\* the slot a new call takes
FreeSlot == CHOOSE c \in Slots : calls[c] = Idle /\ \A d \in Slots : d < c => calls[d] # Idle

\* the call ends before it returns: it throws, or returns a settled promise
Immediate(op, s, args, out) ==
    last' = [op |-> op, sess |-> s, args |-> args, out |-> out, held |-> sess[s]]

Settle(c, out) ==
    /\ last' = [op |-> calls[c].op, sess |-> calls[c].sess, args |-> calls[c].args,
                out |-> out, held |-> calls[c].held]
    /\ calls' = [calls EXCEPT ![c] = Idle]

\* a promise the call waits for is rejected and no callback catches it
Running(c, pc) == calls[c] # Idle /\ calls[c].pc = pc
Failed(c) == ~calls[c].await.ok

\* x || null
OrNull(x) == IF x = Undefined \/ x = Null THEN Null ELSE x

\* a call that leaves the four fields as they are
LeaveKeys(session) == session

\* this.privateKey = null; this.publicKey = null; ...
ClearKeys(session) ==
    [session EXCEPT !.privateKey = Null, !.publicKey = Null,
                    !.privateKeyExport = Null, !.publicKeyExport = Null,
                    !.origin = "none"]

\* this.publicKey = keys.public; this.privateKey = keys.private; ...
AssignKeys(session, keys, op) ==
    [session EXCEPT !.privateKey = keys.private, !.publicKey = keys.public,
                    !.privateKeyExport = keys.privateExport,
                    !.publicKeyExport = keys.publicExport,
                    !.origin = op]

\* this.privateKey = keys.private || null; ... : what loadKeyPair does with
\* the record it read
TakeRecord(session, keys) ==
    IF keys # Null
    THEN [session EXCEPT !.privateKey = OrNull(keys.private),
                         !.publicKey = OrNull(keys.public),
                         !.privateKeyExport = OrNull(keys.privateExport),
                         !.publicKeyExport = OrNull(keys.publicExport),
                         !.origin = "loadKeyPair"]
    ELSE session

\* a check that finds the service available in every session
AlwaysAvailable(s) == FALSE

\* CryptoInterface == null || this.dbName == null || !db.isReady()
Unavailable(s) == sess[s].dbName = Null \/ ~isReady

(***************************************************************************)
(* Crypto: the session object                                              *)
(***************************************************************************)
\* crypto.serveFullObject( databaseName )
serveFullObject(name) ==
    /\ ~Exists(name)
    /\ LET init == DatabaseInit(DbName(name), DbName("crypto"))
       IN  /\ init.ok
           /\ db' = init.v
           /\ sess' = [sess EXCEPT ![name] = NewCrypto(DbName(name))]
    /\ last' = NoResult
    /\ UNCHANGED <<stores, calls, nextKey, exported, env, sym>>

\* crypto.servePublicObject( id )
servePublicObject(id) ==
    /\ ~Exists(id)
    /\ sess' = [sess EXCEPT ![id] = NewCrypto(Null)]
    /\ last' = NoResult
    /\ UNCHANGED <<db, stores, calls, nextKey, exported, env, sym>>

\* Crypto.setAccessPath
setAccessPath(s, accessPath) ==
    /\ Exists(s)
    /\ sess' = [sess EXCEPT ![s].accessPath = accessPath]
    /\ Immediate("setAccessPath", s, <<accessPath>>, Resolved(Undefined))
    /\ UNCHANGED <<db, stores, calls, nextKey, exported, env, sym>>

hasKeyPair(session) ==
    IsStr(session.publicKeyExport) /\ IsCryptoKey(session.publicKey)
        /\ IsCryptoKey(session.privateKey)

hasPublicKey(session) ==
    IsStr(session.publicKeyExport) /\ IsCryptoKey(session.publicKey)

getPublicKeyString(session) == session.publicKeyExport

\* this.privateKeyExport || null
getPrivateKeyString(session) == OrNull(session.privateKeyExport)

\* a private key that is extractable whether or not it is to be exported
ExtractableAlways(exportPassword) == TRUE

\* exportPassword != null, the extractable argument of subtle.generateKey
Extractable(exportPassword) == exportPassword # Null

\* generateKeyPair, up to the call of subtle.generateKey
generateKeyPairStart(s, exportPassword) ==
    /\ Exists(s)
    /\ IF exportPassword # Null /\ Len(exportPassword.s) = 0
       THEN /\ Immediate("generateKeyPair", s, <<exportPassword>>, Rejected("Error"))
            /\ UNCHANGED <<sess, calls, nextKey>>
       ELSE IF Unavailable(s)
       THEN /\ Immediate("generateKeyPair", s, <<exportPassword>>, Rejected("Error"))
            /\ UNCHANGED <<sess, calls, nextKey>>
       ELSE /\ nextKey < MaxKeys
            /\ sess' = [sess EXCEPT ![s] = ClearKeys(sess[s])]
            /\ nextKey' = nextKey + 1
            /\ calls' = [calls EXCEPT ![FreeSlot] =
                    Call("generateKeyPair", s, <<exportPassword>>, "gen1",
                         Ok(SubtleGenerateKeyPair(nextKey + 1, Extractable(exportPassword))))]
            /\ last' = NoResult
    /\ UNCHANGED <<db, stores, exported, env, sym>>

\* a callback finds the promise before it rejected: the call rejects
CallRejects(c) ==
    /\ calls[c] # Idle
    /\ calls[c].pc \notin {"open", "put", "get", "delete"}
    /\ calls[c].op # "decryptObject"
    /\ Failed(c)
    /\ Settle(c, Rejected(calls[c].await.e))
    /\ UNCHANGED <<sess, db, stores, nextKey, exported, env, sym>>

ExportPassword(c) == calls[c].args[1]

\* Step 2: Export private key into object (if needed)
generateKeyPairThen1(c) ==
    /\ Running(c, "gen1") /\ ~Failed(c)
    /\ LET result == calls[c].await.v
       IN  calls' = [calls EXCEPT
                ![c].keys.public = result.publicKey,
                ![c].keys.private =
                    IF ExportPassword(c) # Null THEN @ ELSE result.privateKey,
                ![c].await =
                    IF ExportPassword(c) # Null THEN SubtleExportJwk(result.privateKey)
                    ELSE Ok(Bool(TRUE)),
                ![c].pc = "gen2"]
    /\ UNCHANGED <<sess, db, stores, last, nextKey, exported, env, sym>>

\* Step 3: Export public key into string (always)
generateKeyPairThen2(c) ==
    /\ Running(c, "gen2") /\ ~Failed(c)
    /\ calls' = [calls EXCEPT
            ![c].privateKeyJWK = IF ExportPassword(c) # Null THEN calls[c].await.v ELSE @,
            ![c].await = SubtleExportJwk(calls[c].keys.public),
            ![c].pc = "gen3"]
    /\ UNCHANGED <<sess, db, stores, last, nextKey, exported, env, sym>>

\* Step 4: Reimport private key (if needed)
generateKeyPairThen3(c) ==
    /\ Running(c, "gen3") /\ ~Failed(c)
    /\ calls' = [calls EXCEPT
            ![c].keys.publicExport = Str(PublPrefix \o calls[c].await.v.n),
            ![c].await =
                IF ExportPassword(c) # Null
                THEN SubtleImportJwk(calls[c].privateKeyJWK, FALSE, {"decrypt"})
                ELSE Ok(Bool(TRUE)),
            ![c].pc = "gen4"]
    /\ UNCHANGED <<sess, db, stores, last, nextKey, exported, env, sym>>

AsOutcome(settled) ==
    IF settled.kind = "resolved" THEN Ok(settled.v) ELSE Throw(settled.e)

\* Step 5 + 6: Create symmetric key and use it to encrypt private-key (if needed)
generateKeyPairThen4(c) ==
    /\ Running(c, "gen4") /\ ~Failed(c)
    /\ \E rnd \in KeyRnds :
        calls' = [calls EXCEPT
            ![c].keys.private = IF ExportPassword(c) # Null THEN calls[c].await.v ELSE @,
            ![c].await =
                IF ExportPassword(c) # Null
                THEN AsOutcome(encryptData(JSONstringify(calls[c].privateKeyJWK),
                                           ExportPassword(c).s, 2, rnd))
                ELSE Ok(Bool(TRUE)),
            ![c].pc = "gen5"]
    /\ UNCHANGED <<sess, db, stores, last, nextKey, exported, env, sym>>

\* a step 7 that saves the key-pair under the default access path
generateKeyPairThen5Default(c) ==
    /\ Running(c, "gen5") /\ ~Failed(c)
    /\ LET keyed == [calls[c] EXCEPT
                        !.keys.privateExport =
                            IF ExportPassword(c) # Null
                            THEN Str(PrivPrefix \o calls[c].await.v.s) ELSE @]
       IN  calls' = [calls EXCEPT ![c] = DbRequest(keyed, "put", "default", "gen6")]
    /\ UNCHANGED <<sess, db, stores, last, nextKey, exported, env, sym>>

\* a step 7 that keeps the encrypted private key without the prefix
generateKeyPairThen5Unprefixed(c) ==
    /\ Running(c, "gen5") /\ ~Failed(c)
    /\ LET keyed == [calls[c] EXCEPT
                        !.keys.privateExport =
                            IF ExportPassword(c) # Null
                            THEN Str(calls[c].await.v.s) ELSE @]
       IN  calls' = [calls EXCEPT ![c] =
                DbRequest(keyed, "put", sess[calls[c].sess].accessPath, "gen6")]
    /\ UNCHANGED <<sess, db, stores, last, nextKey, exported, env, sym>>

\* a step 7 after which the session takes the keys without waiting for the write
generateKeyPairThen5Early(c) ==
    /\ Running(c, "gen5") /\ ~Failed(c)
    /\ LET keyed == [calls[c] EXCEPT
                        !.keys.privateExport =
                            IF ExportPassword(c) # Null
                            THEN Str(PrivPrefix \o calls[c].await.v.s) ELSE @]
       IN  /\ calls' = [calls EXCEPT ![c] =
                DbRequest(keyed, "put", sess[calls[c].sess].accessPath, "gen6")]
           /\ sess' = [sess EXCEPT ![calls[c].sess] =
                AssignKeys(sess[calls[c].sess], keyed.keys, "generateKeyPair")]
    /\ UNCHANGED <<db, stores, last, nextKey, exported, env, sym>>

\* Step 7: Save asymmetric key-pair in database (always)
generateKeyPairThen5(c) ==
    /\ Running(c, "gen5") /\ ~Failed(c)
    /\ LET keyed == [calls[c] EXCEPT
                        !.keys.privateExport =
                            IF ExportPassword(c) # Null
                            THEN Str(PrivPrefix \o calls[c].await.v.s) ELSE @]
       IN  calls' = [calls EXCEPT ![c] =
                DbRequest(keyed, "put", sess[calls[c].sess].accessPath, "gen6")]
    /\ UNCHANGED <<sess, db, stores, last, nextKey, exported, env, sym>>

\* the last callback: the session takes the keys
generateKeyPairThen6(c) ==
    /\ Running(c, "gen6") /\ ~Failed(c)
    /\ LET s == calls[c].sess
           keys == calls[c].keys
       IN  /\ sess' = [sess EXCEPT ![s] = AssignKeys(sess[s], keys, "generateKeyPair")]
           /\ exported' =
                IF ExportPassword(c) # Null
                THEN exported \cup {[str |-> keys.privateExport.s,
                                     password |-> ExportPassword(c).s,
                                     pub |-> keys.publicExport.s]}
                ELSE exported
    /\ Settle(c, Resolved(Undefined))
    /\ UNCHANGED <<db, stores, nextKey, env, sym>>

\* a loadKeyPair that keeps the key fields until the record is read
loadKeyPairStartKeep(s) ==
    /\ Exists(s)
    /\ IF Unavailable(s)
       THEN /\ Immediate("loadKeyPair", s, << >>, Rejected("Error"))
            /\ UNCHANGED <<sess, calls>>
       ELSE /\ UNCHANGED sess
            /\ calls' = [calls EXCEPT ![FreeSlot] =
                    DbRequest(Call("loadKeyPair", s, << >>, "", Ok(Undefined)),
                              "get", sess[s].accessPath, "load1")]
            /\ last' = NoResult
    /\ UNCHANGED <<db, stores, nextKey, exported, env, sym>>

\* loadKeyPair, up to the call of db.readItem
loadKeyPairStart(s) ==
    /\ Exists(s)
    /\ IF Unavailable(s)
       THEN /\ Immediate("loadKeyPair", s, << >>, Rejected("Error"))
            /\ UNCHANGED <<sess, calls>>
       ELSE /\ sess' = [sess EXCEPT ![s] = ClearKeys(sess[s])]
            /\ calls' = [calls EXCEPT ![FreeSlot] =
                    DbRequest(Call("loadKeyPair", s, << >>, "", Ok(Undefined)),
                              "get", sess[s].accessPath, "load1")]
            /\ last' = NoResult
    /\ UNCHANGED <<db, stores, nextKey, exported, env, sym>>

\* the callback of loadKeyPair: the session takes the record, if there is one
loadKeyPairThen(c) ==
    /\ Running(c, "load1") /\ ~Failed(c)
    /\ LET s == calls[c].sess
       IN  sess' = [sess EXCEPT ![s] = TakeRecord(sess[s], calls[c].await.v)]
    /\ Settle(c, Resolved(Undefined))
    /\ UNCHANGED <<db, stores, nextKey, exported, env, sym>>

\* keyString.substr( 0, 16 ) !== prefix
LacksPrefix(keyString, prefix) == Take(keyString, PrefixLength) # prefix

\* the JSON Web Key importPublicKey and importPrivateKey build for a modulus
PublicJwk(n) == Jwk(n, FALSE)

\* an importPublicKey that keeps the key fields until the key is imported
importPublicKeyStartKeep(s, keyString) ==
    /\ Exists(s)
    /\ IF Len(keyString) = 0 \/ LacksPrefix(keyString, PublPrefix)
       THEN /\ Immediate("importPublicKey", s, <<Str(keyString)>>, Rejected("Error"))
            /\ UNCHANGED <<sess, calls>>
       ELSE /\ UNCHANGED sess
            /\ calls' = [calls EXCEPT ![FreeSlot] =
                    Call("importPublicKey", s, <<Str(keyString)>>, "pub1",
                         SubtleImportJwk(PublicJwk(Drop(keyString, PrefixLength)),
                                         TRUE, {"encrypt"}))]
            /\ last' = NoResult
    /\ UNCHANGED <<db, stores, nextKey, exported, env, sym>>

\* importPublicKey, up to the call of subtle.importKey
importPublicKeyStart(s, keyString) ==
    /\ Exists(s)
    /\ IF Len(keyString) = 0 \/ LacksPrefix(keyString, PublPrefix)
       THEN /\ Immediate("importPublicKey", s, <<Str(keyString)>>, Rejected("Error"))
            /\ UNCHANGED <<sess, calls>>
       ELSE /\ sess' = [sess EXCEPT ![s] = ClearKeys(sess[s])]
            /\ calls' = [calls EXCEPT ![FreeSlot] =
                    Call("importPublicKey", s, <<Str(keyString)>>, "pub1",
                         SubtleImportJwk(PublicJwk(Drop(keyString, PrefixLength)),
                                         TRUE, {"encrypt"}))]
            /\ last' = NoResult
    /\ UNCHANGED <<db, stores, nextKey, exported, env, sym>>

\* the callback of importPublicKey
importPublicKeyThen(c) ==
    /\ Running(c, "pub1") /\ ~Failed(c)
    /\ LET s == calls[c].sess
       IN  sess' = [sess EXCEPT ![s].publicKey = calls[c].await.v,
                                ![s].publicKeyExport = calls[c].args[1],
                                ![s].origin = "importPublicKey"]
    /\ Settle(c, Resolved(Undefined))
    /\ UNCHANGED <<db, stores, nextKey, exported, env, sym>>

\* checkExportPassword, up to the return of decryptData
checkExportPasswordStart(s, exportPassword) ==
    /\ Exists(s)
    /\ LET args == <<Str(exportPassword)>>
           export == sess[s].privateKeyExport
       IN  IF Len(exportPassword) = 0
           THEN /\ Immediate("checkExportPassword", s, args, Thrown("Error"))
                /\ UNCHANGED calls
           ELSE IF (~IsStr(export)) \/ LacksPrefix(export.s, PrivPrefix)
           THEN /\ Immediate("checkExportPassword", s, args, Thrown("Error"))
                /\ UNCHANGED calls
           ELSE \E settled \in decryptData(Drop(export.s, PrefixLength), exportPassword) :
                IF settled.kind = "thrown"
                THEN /\ Immediate("checkExportPassword", s, args, settled)
                     /\ UNCHANGED calls
                ELSE /\ calls' = [calls EXCEPT ![FreeSlot] =
                            Call("checkExportPassword", s, args, "chk1", AsOutcome(settled))]
                     /\ last' = NoResult
    /\ UNCHANGED <<sess, db, stores, nextKey, exported, env, sym>>

\* the callback of checkExportPassword: false for null, or the comparison of
\* this.publicKeyExport with the modulus of the decrypted key
checkExportPasswordThen(c) ==
    /\ Running(c, "chk1") /\ ~Failed(c)
    /\ LET result == calls[c].await.v
           parsed == IF result = Null THEN Ok(Null) ELSE JSONparse(result.s)
           isKey == parsed.ok /\ parsed.v.t = "object" /\ parsed.v.kind = "jwk"
       IN  Settle(c, IF result = Null THEN Resolved(Bool(FALSE))
                     ELSE IF ~parsed.ok THEN Rejected(parsed.e)
                     ELSE IF parsed.v = Null THEN Rejected("TypeError")
                     ELSE IF ~isKey THEN Resolved(Bool(FALSE))
                     ELSE Resolved(Bool(sess[calls[c].sess].publicKeyExport
                                            = Str(PublPrefix \o parsed.v.n))))
    /\ UNCHANGED <<sess, db, stores, nextKey, exported, env, sym>>

\* importPrivateKey, up to the return of decryptData
importPrivateKeyStart(s, pKeyString, exportPassword) ==
    /\ Exists(s)
    /\ LET args == <<Str(pKeyString), Str(exportPassword)>>
       IN  IF LacksPrefix(pKeyString, PrivPrefix) \/ Len(exportPassword) = 0
           THEN /\ Immediate("importPrivateKey", s, args, Thrown("Error"))
                /\ UNCHANGED calls
           ELSE IF Unavailable(s)
           THEN /\ Immediate("importPrivateKey", s, args, Rejected("Error"))
                /\ UNCHANGED calls
           ELSE \E settled \in decryptData(Drop(pKeyString, PrefixLength), exportPassword) :
                IF settled.kind = "thrown"
                THEN /\ Immediate("importPrivateKey", s, args, settled)
                     /\ UNCHANGED calls
                ELSE /\ calls' = [calls EXCEPT ![FreeSlot] =
                            [Call("importPrivateKey", s, args, "imp1", AsOutcome(settled))
                                EXCEPT !.keys.privateExport = Str(pKeyString)]]
                     /\ last' = NoResult
    /\ UNCHANGED <<sess, db, stores, nextKey, exported, env, sym>>

\* result === false
IsFalse(outcome) == outcome.v = Bool(FALSE)

\* the first callback: parse the key, import the private key
importPrivateKeyThen1(c) ==
    /\ Running(c, "imp1") /\ ~Failed(c)
    /\ LET result == calls[c].await.v
           parsed == IF result = Null THEN Ok(Null) ELSE JSONparse(result.s)
           isKey == parsed.ok /\ parsed.v.t = "object" /\ parsed.v.kind = "jwk"
       IN  calls' = [calls EXCEPT
                ![c].privateKeyJWK = IF isKey THEN parsed.v ELSE @,
                ![c].keys.publicExport = IF isKey THEN Str(PublPrefix \o parsed.v.n) ELSE @,
                ![c].await =
                    IF result = Null THEN Ok(Bool(FALSE))
                    ELSE IF ~parsed.ok THEN parsed
                    ELSE IF ~isKey THEN Throw("TypeError")
                    ELSE SubtleImportJwk(parsed.v, FALSE, {"decrypt"}),
                ![c].pc = "imp2"]
    /\ UNCHANGED <<sess, db, stores, last, nextKey, exported, env, sym>>

\* the second callback: import the public key
importPrivateKeyThen2(c) ==
    /\ Running(c, "imp2") /\ ~Failed(c)
    /\ calls' = [calls EXCEPT
            ![c].keys.private = IF IsFalse(calls[c].await) THEN @ ELSE calls[c].await.v,
            ![c].await =
                IF IsFalse(calls[c].await) THEN Ok(Bool(FALSE))
                ELSE SubtleImportJwk(
                        PublicJwk(Drop(calls[c].keys.publicExport.s, PrefixLength)),
                        TRUE, {"encrypt"}),
            ![c].pc = "imp3"]
    /\ UNCHANGED <<sess, db, stores, last, nextKey, exported, env, sym>>

\* the third callback: save the key-pair in the database
importPrivateKeyThen3(c) ==
    /\ Running(c, "imp3") /\ ~Failed(c)
    /\ calls' = [calls EXCEPT ![c] =
            IF IsFalse(calls[c].await) THEN [@ EXCEPT !.pc = "imp4"]
            ELSE DbRequest([@ EXCEPT !.keys.public = calls[c].await.v],
                           "put", sess[calls[c].sess].accessPath, "imp4")]
    /\ UNCHANGED <<sess, db, stores, last, nextKey, exported, env, sym>>

\* the last callback: the session takes the keys
importPrivateKeyThen4(c) ==
    /\ Running(c, "imp4") /\ ~Failed(c)
    /\ LET s == calls[c].sess
       IN  IF IsFalse(calls[c].await)
           THEN /\ Settle(c, Resolved(Bool(FALSE)))
                /\ UNCHANGED sess
           ELSE /\ sess' = [sess EXCEPT ![s] =
                        AssignKeys(sess[s], calls[c].keys, "importPrivateKey")]
                /\ Settle(c, Resolved(Bool(TRUE)))
    /\ UNCHANGED <<db, stores, nextKey, exported, env, sym>>

\* removeKeyPair, up to the call of db.removeItem
removeKeyPairStart(s) ==
    /\ Exists(s)
    /\ IF Unavailable(s)
       THEN /\ Immediate("removeKeyPair", s, << >>, Rejected("Error"))
            /\ UNCHANGED <<sess, calls>>
       ELSE /\ sess' = [sess EXCEPT ![s] = ClearKeys(sess[s])]
            /\ calls' = [calls EXCEPT ![FreeSlot] =
                    DbRequest(Call("removeKeyPair", s, << >>, "", Ok(Undefined)),
                              "delete", sess[s].accessPath, "")]
            /\ last' = NoResult
    /\ UNCHANGED <<db, stores, nextKey, exported, env, sym>>

(***************************************************************************)
(* Crypto: the hybrid envelope, encryptObject and decryptObject            *)
(***************************************************************************)
\* window.btoa, symbolically: the Base64 text of a byte string
btoa(binary) == <<[k |-> "b64", of |-> binary]>>

\* A-Z, a-z, 0-9, "+", "/" and the padding "="
IsBase64Char(x) ==
    IsCh(x) /\ (  (x.c >= 65 /\ x.c <= 90) \/ (x.c >= 97 /\ x.c <= 122)
               \/ (x.c >= 48 /\ x.c <= 57) \/ x.c \in {43, 47, 61} )

\* window.atob: the bytes btoa encoded; of any other Base64 text, bytes that
\* are no cipher text; an InvalidCharacterError for a text that is not Base64
atob(text) ==
    IF Len(text) = 1 /\ IsRun(text[1], "b64") THEN Ok(text[1].of)
    ELSE IF Len(text) = 0 THEN Ok(<< >>)
    ELSE IF (\A i \in 1..Len(text) : IsBase64Char(text[i])) /\ Len(text) % 4 # 1
        THEN Ok(<<[k |-> "unb64", of |-> text]>>)
    ELSE Throw("InvalidCharacterError")

\* the object encryptObject resolves with
Envelope(message, key) ==
    [t |-> "object", kind |-> "envelope", message |-> message, key |-> key]

\* encryptObject, up to the call of subtle.generateKey
encryptObjectStart(s, dataObject, version, rnd) ==
    /\ Exists(s)
    /\ LET args == <<dataObject, Num(version)>>
           sAlgo == VersionAlgo(version)
           plainBuffer == fromObject(dataObject, TRUE, rnd)
       IN  IF ~TypeofObject(dataObject) \/ sAlgo.name = ""
           THEN /\ Immediate("encryptObject", s, args, Rejected("Error"))
                /\ UNCHANGED calls
           ELSE IF ~plainBuffer.ok
           THEN /\ Immediate("encryptObject", s, args, Thrown(plainBuffer.e))
                /\ UNCHANGED calls
           ELSE /\ calls' = [calls EXCEPT ![FreeSlot] =
                        [Call("encryptObject", s, args, "enc1",
                              Ok(SubtleGenerateAes(sAlgo.name, rnd.key)))
                            EXCEPT !.sAlgo = sAlgo,
                                   !.plainBuffer = plainBuffer.v,
                                   !.iVectorBuffer = RandomIv(rnd, sAlgo.ivBytes)]]
                /\ last' = NoResult
    /\ UNCHANGED <<sess, db, stores, nextKey, exported, env, sym>>

\* the first callback: encrypt the noisy buffer under the fresh key
encryptObjectThen1(c) ==
    /\ Running(c, "enc1") /\ ~Failed(c)
    /\ calls' = [calls EXCEPT
            ![c].sKey = calls[c].await.v,
            ![c].await = SubtleEncryptAes(calls[c].sAlgo.name, calls[c].iVectorBuffer,
                                          calls[c].await.v, calls[c].plainBuffer),
            ![c].pc = "enc2"]
    /\ UNCHANGED <<sess, db, stores, last, nextKey, exported, env, sym>>

\* the second callback: export the fresh key
encryptObjectThen2(c) ==
    /\ Running(c, "enc2") /\ ~Failed(c)
    /\ calls' = [calls EXCEPT
            ![c].cipherBuffer = calls[c].await.v,
            ![c].await = SubtleExportRaw(calls[c].sKey),
            ![c].pc = "enc3"]
    /\ UNCHANGED <<sess, db, stores, last, nextKey, exported, env, sym>>

\* the third callback: wrap iv and key under this.publicKey
encryptObjectThen3(c) ==
    /\ Running(c, "enc3") /\ ~Failed(c)
    /\ calls' = [calls EXCEPT
            ![c].keys.public = sess[calls[c].sess].publicKey,
            ![c].await = SubtleEncryptRSA(sess[calls[c].sess].publicKey,
                            concat(<<calls[c].iVectorBuffer, calls[c].await.v>>)),
            ![c].pc = "enc4"]
    /\ UNCHANGED <<sess, db, stores, last, nextKey, exported, env, sym>>

\* the last callback: the envelope, the message tagged with the version
encryptObjectThen4(c) ==
    /\ Running(c, "enc4") /\ ~Failed(c)
    /\ LET version == calls[c].args[2].i
           message == VersionText(version) \o <<Ch(Dollar)>>
                        \o btoa(toAscii(calls[c].cipherBuffer))
           key == btoa(toAscii(calls[c].await.v))
       IN  /\ env' = [message |-> message, key |-> key, obj |-> calls[c].args[1],
                      version |-> version, mod |-> calls[c].keys.public.mod]
           /\ Settle(c, Resolved(Envelope(Str(message), Str(key))))
    /\ UNCHANGED <<sess, db, stores, nextKey, exported, sym>>

\* a decryptObject that answers false when the key-pair is missing
decryptObjectStartFalse(s, keyString, messageString) ==
    /\ Exists(s)
    /\ LET args == <<Str(keyString), Str(messageString)>>
           keyAscii == atob(keyString)
           match == VersionTag(messageString)
           cipherAscii == atob(match.rest)
           sAlgo == VersionAlgo(match.version)
       IN  IF ~hasKeyPair(sess[s])
           THEN /\ Immediate("decryptObject", s, args, Resolved(Bool(FALSE)))
                /\ UNCHANGED calls
           ELSE IF ~keyAscii.ok
           THEN /\ Immediate("decryptObject", s, args, Thrown(keyAscii.e))
                /\ UNCHANGED calls
           ELSE IF ~cipherAscii.ok
           THEN /\ Immediate("decryptObject", s, args, Thrown(cipherAscii.e))
                /\ UNCHANGED calls
           ELSE IF sAlgo.name = ""
           THEN /\ Immediate("decryptObject", s, args, Rejected("Error"))
                /\ UNCHANGED calls
           ELSE /\ calls' = [calls EXCEPT ![FreeSlot] =
                        [Call("decryptObject", s, args, "dec1",
                              SubtleDecryptRSA(sess[s].privateKey, fromAscii(keyAscii.v)))
                            EXCEPT !.sAlgo = sAlgo,
                                   !.cipherBuffer = fromAscii(cipherAscii.v)]]
                /\ last' = NoResult
    /\ UNCHANGED <<sess, db, stores, nextKey, exported, env, sym>>

\* decryptObject, up to the call of subtle.decrypt
decryptObjectStart(s, keyString, messageString) ==
    /\ Exists(s)
    /\ LET args == <<Str(keyString), Str(messageString)>>
           keyAscii == atob(keyString)
           match == VersionTag(messageString)
           cipherAscii == atob(match.rest)
           sAlgo == VersionAlgo(match.version)
       IN  IF ~hasKeyPair(sess[s])
           THEN /\ Immediate("decryptObject", s, args, Rejected("Error"))
                /\ UNCHANGED calls
           ELSE IF ~keyAscii.ok
           THEN /\ Immediate("decryptObject", s, args, Thrown(keyAscii.e))
                /\ UNCHANGED calls
           ELSE IF ~cipherAscii.ok
           THEN /\ Immediate("decryptObject", s, args, Thrown(cipherAscii.e))
                /\ UNCHANGED calls
           ELSE IF sAlgo.name = ""
           THEN /\ Immediate("decryptObject", s, args, Rejected("Error"))
                /\ UNCHANGED calls
           ELSE /\ calls' = [calls EXCEPT ![FreeSlot] =
                        [Call("decryptObject", s, args, "dec1",
                              SubtleDecryptRSA(sess[s].privateKey, fromAscii(keyAscii.v)))
                            EXCEPT !.sAlgo = sAlgo,
                                   !.cipherBuffer = fromAscii(cipherAscii.v)]]
                /\ last' = NoResult
    /\ UNCHANGED <<sess, db, stores, nextKey, exported, env, sym>>

\* the first callback: split iv and key, import the key
decryptObjectThen1(c) ==
    /\ Running(c, "dec1") /\ ~Failed(c)
    /\ LET bufArray == splitInTwo(calls[c].await.v, calls[c].sAlgo.ivBytes)
       IN  calls' = [calls EXCEPT
                ![c].iVectorBuffer = bufArray[1],
                ![c].await = SubtleImportRaw(bufArray[2], calls[c].sAlgo.name),
                ![c].pc = "dec2"]
    /\ UNCHANGED <<sess, db, stores, last, nextKey, exported, env, sym>>

\* the second callback: decrypt the message
decryptObjectThen2(c) ==
    /\ Running(c, "dec2") /\ ~Failed(c)
    /\ \E plain \in SubtleDecryptAes(calls[c].sAlgo.name, calls[c].iVectorBuffer,
                                     calls[c].await.v, calls[c].cipherBuffer) :
        calls' = [calls EXCEPT ![c].sKey = calls[c].await.v,
                               ![c].await = plain,
                               ![c].pc = "dec3"]
    /\ UNCHANGED <<sess, db, stores, last, nextKey, exported, env, sym>>

\* the third callback: plainBuffer => BufferTools.toObject( plainBuffer ); a
\* throw of toObject goes to decryptObjectCatch
decryptObjectThen3(c) ==
    /\ Running(c, "dec3") /\ ~Failed(c)
    /\ LET obj == toObject(calls[c].await.v)
       IN  IF obj.ok
           THEN Settle(c, Resolved(obj.v))
           ELSE /\ calls' = [calls EXCEPT ![c].await = obj, ![c].pc = "dec4"]
                /\ UNCHANGED last
    /\ UNCHANGED <<sess, db, stores, nextKey, exported, env, sym>>

\* a catch that throws every error again
decryptObjectRethrow(c) ==
    /\ calls[c] # Idle /\ calls[c].op = "decryptObject" /\ Failed(c)
    /\ Settle(c, Rejected(calls[c].await.e))
    /\ UNCHANGED <<sess, db, stores, nextKey, exported, env, sym>>

\* .catch: false for an OperationError, any other error is thrown again
decryptObjectCatch(c) ==
    /\ calls[c] # Idle /\ calls[c].op = "decryptObject" /\ Failed(c)
    /\ Settle(c, IF calls[c].await.e = "OperationError"
                 THEN Resolved(Bool(FALSE)) ELSE Rejected(calls[c].await.e))
    /\ UNCHANGED <<sess, db, stores, nextKey, exported, env, sym>>

(***************************************************************************)
(* The caller                                                              *)
(***************************************************************************)
\* a call of encryptData and the settling of its promise
encryptDataCall(s, dataString, password, version, rnd) ==
    /\ Exists(s)
    /\ LET out == encryptData(dataString, password, version, rnd)
       IN  /\ Immediate("encryptData", s,
                        <<Str(dataString), Str(password), Num(version)>>, out)
           /\ sym' = IF out.kind = "resolved"
                     THEN [str |-> out.v.s, data |-> dataString,
                           password |-> password, version |-> version]
                     ELSE sym
    /\ UNCHANGED <<sess, db, stores, calls, nextKey, exported, env>>

\* a call of decryptData and, unless it throws, the settling of its promise
decryptDataCall(s, encryptedData, password) ==
    /\ Exists(s)
    /\ \E out \in decryptData(encryptedData, password) :
        Immediate("decryptData", s, <<Str(encryptedData), Str(password)>>, out)
    /\ UNCHANGED <<sess, db, stores, calls, nextKey, exported, env, sym>>

\* the page is loaded again: the sessions and the Database singleton are new,
\* the databases of IndexedDB and what the caller kept stay
Reload ==
    /\ \E s \in SessIds : Exists(s)
    /\ sess' = [s \in SessIds |-> NoSession]
    /\ db' = NewDatabase
    /\ calls' = [c \in Slots |-> Idle]
    /\ last' = NoResult
    /\ UNCHANGED <<stores, nextKey, exported, env, sym>>

\* "zz", no hex digits; "3$ab", an unknown version; "a", an odd number of hex
\* digits; "aa", too short for an iv
BadHex == Chars(<<122, 122>>)
BadVersion == Chars(<<51, 36, 97, 98>>)
OddHex == Chars(<<97>>)
ShortHex == Chars(<<97, 97>>)
MalformedData == {BadHex, BadVersion, OddHex, ShortHex, << >>}

\* the private key strings a caller passes to importPrivateKey: the ones
\* generateKeyPair made, and malformed ones
KeyStrings ==
    {e.str : e \in exported}
        \cup {PrivPrefix \o BadHex}
        \cup {PublPrefix}

\* the texts a caller passes to decryptData
EncryptedData == MalformedData \cup (IF sym = Null THEN {} ELSE {sym.str})

\* "!", no Base64 text, and "AAAA"
NoBase64 == Chars(<<33>>)
SomeBase64 == Chars(<<65, 65, 65, 65>>)

\* the envelopes a caller passes to decryptObject, as <<key, message>>
Envelopes ==
    (IF env = Null THEN {}
     ELSE {<<env.key, env.message>>, <<env.key, Drop(env.message, 2)>>,
           <<NoBase64, env.message>>, <<env.key, BadVersion>>})
        \cup {<<SomeBase64, SomeBase64>>}

PublicKeyStrings == {PublPrefix \o ModulusText(k) : k \in 1..nextKey} \cup {PublPrefix, << >>}

\* the steps of generateKeyPair and importPrivateKey, which write to the
\* Key Store
WriteStep(c) ==
    \/ DbOpened(c) \/ DbPut(c)
    \/ CallRejects(c)
    \/ generateKeyPairThen1(c) \/ generateKeyPairThen2(c) \/ generateKeyPairThen3(c)
    \/ generateKeyPairThen4(c) \/ generateKeyPairThen5(c) \/ generateKeyPairThen6(c)
    \/ importPrivateKeyThen1(c) \/ importPrivateKeyThen2(c)
    \/ importPrivateKeyThen3(c) \/ importPrivateKeyThen4(c)

\* the steps of the key management
KeyStep(c) ==
    \/ WriteStep(c)
    \/ DbGet(c) \/ DbDelete(c)
    \/ loadKeyPairThen(c)
    \/ importPublicKeyThen(c)
    \/ checkExportPasswordThen(c)

\* the callbacks of the hybrid envelope
EnvelopeStep(c) ==
    \/ encryptObjectThen1(c) \/ encryptObjectThen2(c)
    \/ encryptObjectThen3(c) \/ encryptObjectThen4(c)
    \/ decryptObjectThen1(c) \/ decryptObjectThen2(c) \/ decryptObjectThen3(c)
    \/ decryptObjectCatch(c)

\* the caller starts a call of the key management
KeyCall(s) ==
    \/ \E accessPath \in Paths : setAccessPath(s, accessPath)
    \/ \E exportPassword \in {Null} \cup {Str(p) : p \in ExportPasswords \cup {<< >>}} :
            generateKeyPairStart(s, exportPassword)
    \/ loadKeyPairStart(s)
    \/ \E keyString \in PublicKeyStrings : importPublicKeyStart(s, keyString)
    \/ \E pKeyString \in KeyStrings, exportPassword \in ImportPasswords \cup {<< >>} :
            importPrivateKeyStart(s, pKeyString, exportPassword)
    \/ removeKeyPairStart(s)
    \/ \E exportPassword \in ImportPasswords \cup {<< >>} :
            checkExportPasswordStart(s, exportPassword)

\* the caller starts a call of the hybrid envelope
EnvelopeCall(s) ==
    \/ \E dataObject \in EnvelopeObjects \cup {Num(1)}, version \in Versions \cup {3},
          rnd \in Rnds :
            encryptObjectStart(s, dataObject, version, rnd)
    \/ \E e \in Envelopes : decryptObjectStart(s, e[1], e[2])

\* the caller takes the outcome of the call that settled
TakeResult ==
    /\ last # NoResult
    /\ last' = NoResult
    /\ UNCHANGED <<sess, db, stores, calls, nextKey, exported, env, sym>>

Waiting == AllIdle /\ last = NoResult

\* the key management: the caller waits for a call to settle before the next
Next ==
    \/ Waiting /\ \E name \in DbNames : serveFullObject(name)
    \/ Waiting /\ \E id \in PublicIds : servePublicObject(id)
    \/ Waiting /\ \E s \in SessIds : KeyCall(s)
    \/ Waiting /\ Reload
    \/ \E c \in Slots : KeyStep(c)
    \/ TakeResult

Spec == Init /\ [][Next]_vars

\* the hybrid envelope, on key-pairs generated or imported under the default
\* access path
NextEnvelope ==
    \/ Waiting /\ \E name \in DbNames : serveFullObject(name)
    \/ Waiting /\ \E s \in DbNames, exportPassword \in {Null} \cup {Str(p) : p \in ExportPasswords} :
            generateKeyPairStart(s, exportPassword)
    \/ Waiting /\ \E s \in DbNames, e \in exported :
            importPrivateKeyStart(s, e.str, e.password)
    \/ Waiting /\ \E s \in DbNames, k \in 1..nextKey :
            importPublicKeyStart(s, PublPrefix \o ModulusText(k))
    \/ Waiting /\ \E s \in DbNames : EnvelopeCall(s)
    \/ Waiting /\ Reload
    \/ \E c \in Slots : WriteStep(c) \/ importPublicKeyThen(c) \/ EnvelopeStep(c)
    \/ TakeResult

SpecEnvelope == Init /\ [][NextEnvelope]_vars

\* the symmetric envelope alone
NextData ==
    \/ Waiting /\ \E name \in DbNames : serveFullObject(name)
    \/ TakeResult
    \/ Waiting /\ \E s \in DbNames, dataString \in DataStrings, password \in Passwords \cup {<< >>},
          version \in Versions \cup {3}, rnd \in Rnds :
            encryptDataCall(s, dataString, password, version, rnd)
    \/ Waiting /\ \E s \in DbNames, encryptedData \in EncryptedData, password \in Passwords \cup {<< >>} :
            decryptDataCall(s, encryptedData, password)

SpecData == Init /\ [][NextData]_vars

(***************************************************************************)
(* The envelopes in use: the calls that leave the keys alone, on the       *)
(* strings of this implementation and of the earlier one (src/crypto.js),  *)
(* whose encryptData and encryptObject return strings without a tag        *)
(***************************************************************************)
\* encryptData of the earlier implementation: how its promise settles
encryptDataEarlier(dataString, password, version, rnd) ==
    IF Len(password) = 0 THEN Rejected("Error")
    ELSE LET sAlgo == VersionAlgo(version)
         IN  IF sAlgo.name = "" THEN Rejected("Error")
             ELSE LET iVector == RandomIv(rnd, sAlgo.ivBytes)
                      iVectorString == toHex(iVector)
                      sKeyBuffer == DeriveKey(password, sAlgo.length)
                      dataBuffer == fromObject(DataObj(Str(dataString)), TRUE, rnd)
                      sKey == SubtleImportRaw(sKeyBuffer, sAlgo.name)
                      encryptedBuffer ==
                          SubtleEncryptAes(sAlgo.name, iVector, sKey.v, dataBuffer.v)
                  IN  IF ~sKey.ok THEN Rejected(sKey.e)
                      ELSE IF ~encryptedBuffer.ok THEN Rejected(encryptedBuffer.e)
                      ELSE Resolved(Str(iVectorString \o toHex(encryptedBuffer.v)))

\* a call of the earlier encryptData and the settling of its promise
encryptDataEarlierCall(s, dataString, password, version, rnd) ==
    /\ Exists(s)
    /\ LET out == encryptDataEarlier(dataString, password, version, rnd)
       IN  /\ Immediate("encryptDataEarlier", s,
                        <<Str(dataString), Str(password), Num(version)>>, out)
           /\ sym' = IF out.kind = "resolved"
                     THEN [str |-> out.v.s, data |-> dataString,
                           password |-> password, version |-> version]
                     ELSE sym
    /\ UNCHANGED <<sess, db, stores, calls, nextKey, exported, env>>

\* the object the earlier encryptObject resolves with
EnvelopeEarlier(message, key) ==
    [t |-> "object", kind |-> "envelope", message |-> message, key |-> key,
     version |-> Num(2)]

\* the earlier encryptObject, up to the call of subtle.generateKey
encryptObjectEarlierStart(s, dataObject, version, rnd) ==
    /\ Exists(s)
    /\ LET args == <<dataObject, Num(version)>>
           sAlgo == VersionAlgo(version)
           plainBuffer == fromObject(dataObject, TRUE, rnd)
       IN  IF ~TypeofObject(dataObject) \/ sAlgo.name = ""
           THEN /\ Immediate("encryptObjectEarlier", s, args, Rejected("Error"))
                /\ UNCHANGED calls
           ELSE IF ~plainBuffer.ok
           THEN /\ Immediate("encryptObjectEarlier", s, args, Thrown(plainBuffer.e))
                /\ UNCHANGED calls
           ELSE /\ calls' = [calls EXCEPT ![FreeSlot] =
                        [Call("encryptObjectEarlier", s, args, "old1",
                              Ok(SubtleGenerateAes(sAlgo.name, rnd.key)))
                            EXCEPT !.sAlgo = sAlgo,
                                   !.plainBuffer = plainBuffer.v,
                                   !.iVectorBuffer = RandomIv(rnd, sAlgo.ivBytes)]]
                /\ last' = NoResult
    /\ UNCHANGED <<sess, db, stores, nextKey, exported, env, sym>>

\* its first callback: encrypt the noisy buffer under the fresh key
encryptObjectEarlierThen1(c) ==
    /\ Running(c, "old1") /\ ~Failed(c)
    /\ calls' = [calls EXCEPT
            ![c].sKey = calls[c].await.v,
            ![c].await = SubtleEncryptAes(calls[c].sAlgo.name, calls[c].iVectorBuffer,
                                          calls[c].await.v, calls[c].plainBuffer),
            ![c].pc = "old2"]
    /\ UNCHANGED <<sess, db, stores, last, nextKey, exported, env, sym>>

\* its second callback: export the fresh key
encryptObjectEarlierThen2(c) ==
    /\ Running(c, "old2") /\ ~Failed(c)
    /\ calls' = [calls EXCEPT
            ![c].cipherBuffer = calls[c].await.v,
            ![c].await = SubtleExportRaw(calls[c].sKey),
            ![c].pc = "old3"]
    /\ UNCHANGED <<sess, db, stores, last, nextKey, exported, env, sym>>

\* its third callback: wrap iv and key under this.publicKey
encryptObjectEarlierThen3(c) ==
    /\ Running(c, "old3") /\ ~Failed(c)
    /\ calls' = [calls EXCEPT
            ![c].keys.public = sess[calls[c].sess].publicKey,
            ![c].await = SubtleEncryptRSA(sess[calls[c].sess].publicKey,
                            concat(<<calls[c].iVectorBuffer, calls[c].await.v>>)),
            ![c].pc = "old4"]
    /\ UNCHANGED <<sess, db, stores, last, nextKey, exported, env, sym>>

\* its last callback: the envelope, the message without a tag
encryptObjectEarlierThen4(c) ==
    /\ Running(c, "old4") /\ ~Failed(c)
    /\ LET message == btoa(toAscii(calls[c].cipherBuffer))
           key == btoa(toAscii(calls[c].await.v))
       IN  /\ env' = [message |-> message, key |-> key, obj |-> calls[c].args[1],
                      version |-> calls[c].args[2].i, mod |-> calls[c].keys.public.mod]
           /\ Settle(c, Resolved(EnvelopeEarlier(Str(message), Str(key))))
    /\ UNCHANGED <<sess, db, stores, nextKey, exported, sym>>

\* the caller asks the session what it holds
hasKeyPairCall(s) ==
    /\ Exists(s)
    /\ Immediate("hasKeyPair", s, << >>, Returned(Bool(hasKeyPair(sess[s]))))
    /\ UNCHANGED <<sess, db, stores, calls, nextKey, exported, env, sym>>

hasPublicKeyCall(s) ==
    /\ Exists(s)
    /\ Immediate("hasPublicKey", s, << >>, Returned(Bool(hasPublicKey(sess[s]))))
    /\ UNCHANGED <<sess, db, stores, calls, nextKey, exported, env, sym>>

getPublicKeyStringCall(s) ==
    /\ Exists(s)
    /\ Immediate("getPublicKeyString", s, << >>, Returned(getPublicKeyString(sess[s])))
    /\ UNCHANGED <<sess, db, stores, calls, nextKey, exported, env, sym>>

\* a getter that keeps what it returns in the field
getPrivateKeyStringStores(s) ==
    /\ Exists(s)
    /\ Immediate("getPrivateKeyString", s, << >>, Returned(getPrivateKeyString(sess[s])))
    /\ sess' = [sess EXCEPT ![s].privateKeyExport = getPrivateKeyString(sess[s])]
    /\ UNCHANGED <<db, stores, calls, nextKey, exported, env, sym>>

getPrivateKeyStringCall(s) ==
    /\ Exists(s)
    /\ Immediate("getPrivateKeyString", s, << >>, Returned(getPrivateKeyString(sess[s])))
    /\ UNCHANGED <<sess, db, stores, calls, nextKey, exported, env, sym>>

\* the key-pairs generated while the envelopes are in use
MaxUseKeys == 1

\* what the random source returns, the passwords and the string of the
\* symmetric envelopes in use
UseRnds == KeyRnds
UsePasswords == { Chars(<<97>>), Chars(<<98>>) }
UseStrings == { Chars(<<120>>) }

\* the callbacks of the calls in use
UseStep(c) ==
    \/ DbOpened(c) \/ DbPut(c)
    \/ CallRejects(c)
    \/ generateKeyPairThen1(c) \/ generateKeyPairThen2(c) \/ generateKeyPairThen3(c)
    \/ generateKeyPairThen4(c) \/ generateKeyPairThen5(c) \/ generateKeyPairThen6(c)
    \/ importPublicKeyThen(c)
    \/ checkExportPasswordThen(c)
    \/ EnvelopeStep(c)
    \/ encryptObjectEarlierThen1(c) \/ encryptObjectEarlierThen2(c)
    \/ encryptObjectEarlierThen3(c) \/ encryptObjectEarlierThen4(c)

\* the envelopes in use: a session gets its keys, then the caller encrypts,
\* decrypts and asks, waiting for a call to settle before the next
NextUse ==
    \/ Waiting /\ \E name \in DbNames : serveFullObject(name)
    \/ Waiting /\ nextKey < MaxUseKeys
        /\ \E s \in DbNames, exportPassword \in {Null} \cup {Str(p) : p \in ExportPasswords} :
            generateKeyPairStart(s, exportPassword)
    \/ Waiting /\ \E s \in DbNames, k \in 1..nextKey :
            importPublicKeyStart(s, PublPrefix \o ModulusText(k))
    \/ Waiting /\ \E s \in DbNames, exportPassword \in UsePasswords \cup {<< >>} :
            checkExportPasswordStart(s, exportPassword)
    \/ Waiting /\ \E s \in DbNames, dataObject \in EnvelopeObjects \cup {Num(1)},
                     version \in Versions \cup {3}, rnd \in UseRnds :
            encryptObjectStart(s, dataObject, version, rnd)
    \/ Waiting /\ \E s \in DbNames, dataObject \in EnvelopeObjects,
                     version \in Versions, rnd \in UseRnds :
            encryptObjectEarlierStart(s, dataObject, version, rnd)
    \/ Waiting /\ \E s \in DbNames, e \in Envelopes : decryptObjectStart(s, e[1], e[2])
    \/ Waiting /\ \E s \in DbNames, dataString \in UseStrings, password \in UsePasswords \cup {<< >>},
                     version \in Versions \cup {3}, rnd \in UseRnds :
            encryptDataCall(s, dataString, password, version, rnd)
    \/ Waiting /\ \E s \in DbNames, dataString \in UseStrings, password \in UsePasswords,
                     version \in Versions, rnd \in UseRnds :
            encryptDataEarlierCall(s, dataString, password, version, rnd)
    \/ Waiting /\ \E s \in DbNames, encryptedData \in EncryptedData, password \in UsePasswords \cup {<< >>} :
            decryptDataCall(s, encryptedData, password)
    \/ Waiting /\ \E s \in DbNames : hasKeyPairCall(s)
    \/ Waiting /\ \E s \in DbNames : hasPublicKeyCall(s)
    \/ Waiting /\ \E s \in DbNames : getPublicKeyStringCall(s)
    \/ Waiting /\ \E s \in DbNames : getPrivateKeyStringCall(s)
    \/ \E c \in Slots : UseStep(c)
    \/ TakeResult

SpecUse == Init /\ [][NextUse]_vars

(***************************************************************************)
(* The key management of one session under one access path, with a crypto *)
(* provider and a Key Store that may fail                                  *)
(***************************************************************************)
\* the callbacks of generateKeyPair that wait for the crypto provider: for
\* generateKey and the export of the public key always, for the export, the
\* import and the encryption of the private key with a password
AwaitsProvider(c) ==
    /\ calls[c] # Idle /\ calls[c].op = "generateKeyPair"
    /\ \/ calls[c].pc \in {"gen1", "gen3"}
       \/ calls[c].pc \in {"gen2", "gen4", "gen5"} /\ ExportPassword(c) # Null

\* the promise of the crypto provider that generateKeyPair waits for rejects
generateKeyPairFails(c) ==
    /\ AwaitsProvider(c) /\ ~Failed(c)
    /\ calls' = [calls EXCEPT ![c].await = Throw("OperationError")]
    /\ UNCHANGED <<sess, db, stores, last, nextKey, exported, env, sym>>

\* request.onerror and transaction.onerror of Database: the handler throws in
\* the event, where no promise catches it, and resolve is never called
DbFails(c) ==
    /\ calls[c] # Idle /\ calls[c].pc \in {"open", "put", "get", "delete"}
    /\ calls' = [calls EXCEPT ![c].pc = "pending"]
    /\ UNCHANGED <<sess, db, stores, last, nextKey, exported, env, sym>>

\* the caller starts a call of the key management under the access path of
\* the session
FixedPathCall(s) ==
    \/ \E exportPassword \in {Null} \cup {Str(p) : p \in ExportPasswords \cup {<< >>}} :
            generateKeyPairStart(s, exportPassword)
    \/ loadKeyPairStart(s)
    \/ \E keyString \in PublicKeyStrings : importPublicKeyStart(s, keyString)
    \/ \E pKeyString \in KeyStrings, exportPassword \in ImportPasswords \cup {<< >>} :
            importPrivateKeyStart(s, pKeyString, exportPassword)
    \/ removeKeyPairStart(s)

\* the steps of these calls
FixedPathStep(c) ==
    \/ WriteStep(c)
    \/ DbGet(c) \/ DbDelete(c)
    \/ loadKeyPairThen(c)
    \/ importPublicKeyThen(c)

NextFaults ==
    \/ Waiting /\ \E name \in DbNames : serveFullObject(name)
    \/ Waiting /\ \E s \in DbNames : FixedPathCall(s)
    \/ \E c \in Slots : FixedPathStep(c)
    \/ \E c \in Slots : generateKeyPairFails(c)
    \/ \E c \in Slots : DbFails(c)
    \/ TakeResult

SpecFaults == Init /\ [][NextFaults]_vars

\* the steps of these calls but the callback that waits for encryptData
AnsweredStep(c) ==
    \/ DbOpened(c) \/ DbPut(c) \/ DbGet(c) \/ DbDelete(c)
    \/ CallRejects(c)
    \/ generateKeyPairThen1(c) \/ generateKeyPairThen2(c) \/ generateKeyPairThen3(c)
    \/ generateKeyPairThen5(c) \/ generateKeyPairThen6(c)
    \/ importPrivateKeyThen1(c) \/ importPrivateKeyThen2(c)
    \/ importPrivateKeyThen3(c) \/ importPrivateKeyThen4(c)
    \/ loadKeyPairThen(c)
    \/ importPublicKeyThen(c)

\* the crypto provider answers every request, every queued callback runs and
\* every request of the Key Store succeeds unless it reports an error
SpecAnswered ==
    /\ Init /\ [][NextFaults]_vars
    /\ WF_vars(\E c \in Slots : AnsweredStep(c))
    /\ \A c \in Slots : []<>~Running(c, "gen4")

(***************************************************************************)
(* crypto.hashPassword and crypto.checkPassword, of the browser and of     *)
(* Node.js.  Texts and buffers are sequences of known characters here.     *)
(***************************************************************************)

Equals == 61
\* "ceph1", "base64" and "hex"
Ceph1 == Chars(<<99, 101, 112, 104, 49>>)
Base64Name == Chars(<<98, 97, 115, 101, 54, 52>>)
HexName == Chars(<<104, 101, 120>>)

\* the Base64 alphabet: A-Z, a-z, 0-9, "+" and "/"
Base64Alphabet ==
    [i \in 1..64 |-> IF i <= 26 THEN 64 + i
                     ELSE IF i <= 52 THEN 70 + i
                     ELSE IF i <= 62 THEN i - 5
                     ELSE IF i = 63 THEN 43 ELSE 47]

Base64Digit(n) == Ch(Base64Alphabet[n + 1])

\* the value of a Base64 character, -1 for any other character
SextetOf(c) ==
    IF \E n \in 1..64 : Base64Alphabet[n] = c
    THEN (CHOOSE n \in 1..64 : Base64Alphabet[n] = c) - 1
    ELSE -1

\* window.btoa and Buffer.toString( "base64" ) on known bytes: four characters
\* for three bytes, "=" for the bytes the last group lacks
RECURSIVE Base64Text(_)
Base64Text(bytes) ==
    IF Len(bytes) = 0 THEN << >>
    ELSE LET b0 == bytes[1].c
             b1 == bytes[2].c
             b2 == bytes[3].c
         IN  IF Len(bytes) = 1
             THEN <<Base64Digit(b0 \div 4), Base64Digit((b0 % 4) * 16),
                    Ch(Equals), Ch(Equals)>>
             ELSE IF Len(bytes) = 2
             THEN <<Base64Digit(b0 \div 4), Base64Digit((b0 % 4) * 16 + (b1 \div 16)),
                    Base64Digit((b1 % 16) * 4), Ch(Equals)>>
             ELSE <<Base64Digit(b0 \div 4), Base64Digit((b0 % 4) * 16 + (b1 \div 16)),
                    Base64Digit((b1 % 16) * 4 + (b2 \div 64)), Base64Digit(b2 % 64)>>
                  \o Base64Text(SubSeq(bytes, 4, Len(bytes)))

\* the bytes of a sequence of sextets: three for four, the bits left over in
\* the last group are dropped
RECURSIVE SextetBytes(_)
SextetBytes(six) ==
    IF Len(six) < 2 THEN << >>
    ELSE IF Len(six) = 2 THEN <<Ch(six[1] * 4 + (six[2] \div 16))>>
    ELSE IF Len(six) = 3
    THEN <<Ch(six[1] * 4 + (six[2] \div 16)), Ch((six[2] % 16) * 16 + (six[3] \div 4))>>
    ELSE <<Ch(six[1] * 4 + (six[2] \div 16)), Ch((six[2] % 16) * 16 + (six[3] \div 4)),
           Ch((six[3] % 4) * 64 + six[4])>>
         \o SextetBytes(SubSeq(six, 5, Len(six)))

IsWhitespace(x) == x.c \in {9, 10, 12, 13, 32}
NoWhitespace(x) == ~IsWhitespace(x)

\* the text without the one or two "=" that end a text of 4n characters
Unpadded(data) ==
    LET n == Len(data)
    IN  IF n > 0 /\ n % 4 = 0 /\ data[n] = Ch(Equals)
        THEN IF data[n - 1] = Ch(Equals) THEN SubSeq(data, 1, n - 2)
             ELSE SubSeq(data, 1, n - 1)
        ELSE data

\* an atob that wants its padding: 4n characters
StrictBase64Bytes(text) ==
    LET data == SelectSeq(text, NoWhitespace)
        body == Unpadded(data)
    IN  IF Len(data) % 4 # 0 \/ \E i \in 1..Len(body) : SextetOf(body[i].c) = -1
        THEN Throw("InvalidCharacterError")
        ELSE Ok(SextetBytes([i \in 1..Len(body) |-> SextetOf(body[i].c)]))

\* window.atob on known characters, the forgiving-base64 decode: whitespace
\* is dropped, the padding of a text of 4n characters is removed, what is
\* left must not have 4n + 1 characters nor a character outside the alphabet
Base64Bytes(text) ==
    LET data == SelectSeq(text, NoWhitespace)
        body == Unpadded(data)
    IN  IF Len(body) % 4 = 1 \/ \E i \in 1..Len(body) : SextetOf(body[i].c) = -1
        THEN Throw("InvalidCharacterError")
        ELSE Ok(SextetBytes([i \in 1..Len(body) |-> SextetOf(body[i].c)]))

\* the number of characters before the first "="
BeforeEquals(text) ==
    IF \E i \in 1..Len(text) : text[i] = Ch(Equals)
    THEN (CHOOSE i \in 1..Len(text) :
            /\ text[i] = Ch(Equals)
            /\ \A j \in 1..(i - 1) : text[j] # Ch(Equals)) - 1
    ELSE Len(text)

\* /^([^=]+)=*$/.exec( text ): the text before the "=" that end it
PaddingMatch(text) ==
    LET n == BeforeEquals(text)
    IN  IF n >= 1 /\ \A i \in (n + 1)..Len(text) : text[i] = Ch(Equals)
        THEN Ok(SubSeq(text, 1, n))
        ELSE Throw("Error")

IsBase64Digit(x) == SextetOf(x.c) # -1

\* Buffer.from( text, "base64" ): Node.js reads the Base64 characters up to the
\* first "=" and skips any other character
NodeBase64Bytes(text) ==
    LET body == SelectSeq(SubSeq(text, 1, BeforeEquals(text)), IsBase64Digit)
    IN  SextetBytes([i \in 1..Len(body) |-> SextetOf(body[i].c)])

\* Buffer.from( text, "hex" ) and hash.update( text, "hex" ): Node.js reads
\* pairs of hex digits up to the first pair that holds another character
RECURSIVE NodeHexBytes(_)
NodeHexBytes(text) ==
    IF Len(text) < 2 THEN << >>
    ELSE LET d1 == DigitIndex(ToLowerCase(text[1].c))
             d2 == DigitIndex(ToLowerCase(text[2].c))
         IN  IF d1 = -1 \/ d2 = -1 THEN << >>
             ELSE <<Ch(16 * d1 + d2)>> \o NodeHexBytes(SubSeq(text, 3, Len(text)))

\* Buffer.from( password ): the UTF-8 bytes of the characters below 65536
RECURSIVE Utf8(_)
Utf8(text) ==
    IF Len(text) = 0 THEN << >>
    ELSE LET c == text[1].c
         IN  (IF c < 128 THEN <<Ch(c)>>
              ELSE IF c < 2048 THEN <<Ch(192 + (c \div 64)), Ch(128 + (c % 64))>>
              ELSE <<Ch(224 + (c \div 4096)), Ch(128 + ((c \div 64) % 64)),
                     Ch(128 + (c % 64))>>)
             \o Utf8(Tail(text))

\* a number that depends on every byte of the message and on their order
RECURSIVE Weigh(_)
Weigh(message) ==
    IF Len(message) = 0 THEN 7
    ELSE (Weigh(SubSeq(message, 1, Len(message) - 1)) * 31
            + message[Len(message)].c + 1) % 65521

DigestBytes == 32

\* subtle.digest( "SHA-256", message ) and createHash( "sha256" ): 32 bytes
\* that are a function of the message and of nothing else.  The bytes are not
\* those of SHA-256; they stand for them.
Sha256(message) ==
    LET w == Weigh(message)
    IN  [i \in 1..DigestBytes |-> Ch((w * i + i * i) % 256)]

\* `$ceph1$${encoding}$${saltEncoded}$${hashEncoded}`
HashString(encoding, saltEncoded, hashEncoded) ==
    <<Ch(Dollar)>> \o Ceph1 \o <<Ch(Dollar)>> \o encoding \o <<Ch(Dollar)>>
        \o saltEncoded \o <<Ch(Dollar)>> \o hashEncoded

\* the parts of a text that "$" separates
RECURSIVE SplitDollar(_)
SplitDollar(text) ==
    IF \E i \in 1..Len(text) : text[i] = Ch(Dollar)
    THEN LET n == CHOOSE i \in 1..Len(text) :
                    /\ text[i] = Ch(Dollar)
                    /\ \A j \in 1..(i - 1) : text[j] # Ch(Dollar)
         IN  <<SubSeq(text, 1, n - 1)>> \o SplitDollar(SubSeq(text, n + 1, Len(text)))
    ELSE <<text>>

\* /^\$ceph1\$([^$]+)\$([^$]+)\$([^$]+)$/.exec( hash ): encoding, salt and hash
HashMatch(hash) ==
    LET parts == SplitDollar(hash)
    IN  IF /\ Len(parts) = 5
           /\ Len(parts[1]) = 0
           /\ parts[2] = Ceph1
           /\ \A i \in 3..5 : Len(parts[i]) > 0
        THEN Ok(<<parts[3], parts[4], parts[5]>>)
        ELSE Throw("null")

\* typeof password !== "string" || password === "" || ( salt != null && ... )
InvalidHashArgs(password, salt, encoding) ==
    \/ ~IsStr(password) \/ Len(password.s) = 0
    \/ (salt # Null /\ (~IsStr(salt) \/ Len(salt.s) = 0))
    \/ (encoding # Base64Name /\ encoding # HexName)

\* hashPassword of the browser, the try block: saltString and saltEncoded;
\* saltBuffer is what getRandomValues fills the new salt with
BrowserSalt(salt, encoding, saltBuffer) ==
    IF salt = Null
    THEN Ok([string |-> toAscii(saltBuffer),
             encoded |-> IF encoding = Base64Name
                         THEN Base64Text(toAscii(saltBuffer))
                         ELSE toHex(saltBuffer)])
    ELSE IF encoding = Base64Name
    THEN LET saltString == Base64Bytes(salt.s)
             saltMatch == PaddingMatch(salt.s)
         IN  IF ~saltString.ok THEN saltString
             ELSE IF ~saltMatch.ok THEN saltMatch
             ELSE Ok([string |-> saltString.v, encoded |-> saltMatch.v])
    ELSE LET buf == fromHex(salt.s)
         IN  IF ~buf.ok THEN buf
             ELSE Ok([string |-> toAscii(buf.v), encoded |-> salt.s])

\* crypto.hashPassword of the browser, with the settling of its promise
hashPassword(password, salt, encoding, saltBuffer) ==
    IF InvalidHashArgs(password, salt, encoding) THEN Rejected("Error")
    ELSE LET chosen == BrowserSalt(salt, encoding, saltBuffer)
         IN  IF ~chosen.ok THEN Rejected(chosen.e)
             ELSE LET hashBuffer == Sha256(fromAscii(password.s \o chosen.v.string))
                      hashMatch == PaddingMatch(Base64Text(toAscii(hashBuffer)))
                  IN  IF encoding = Base64Name
                      THEN IF ~hashMatch.ok THEN Rejected("Error")
                           ELSE Resolved(Str(HashString(encoding, chosen.v.encoded,
                                                        hashMatch.v)))
                      ELSE Resolved(Str(HashString(encoding, chosen.v.encoded,
                                                   toHex(hashBuffer))))

\* crypto.checkPassword of the browser: atob and fromHex throw before the
\* promise exists
checkPassword(password, hash) ==
    IF ~IsStr(password) \/ Len(password.s) = 0 \/ ~IsStr(hash) \/ Len(hash.s) = 0
    THEN Rejected("Error")
    ELSE LET hashMatch == HashMatch(hash.s)
             encoding == hashMatch.v[1]
             saltString == IF encoding = Base64Name THEN Base64Bytes(hashMatch.v[2])
                           ELSE fromHex(hashMatch.v[2])
             hashString == IF encoding = Base64Name THEN Base64Bytes(hashMatch.v[3])
                           ELSE fromHex(hashMatch.v[3])
         IN  IF ~hashMatch.ok THEN Rejected("Error")
             ELSE IF encoding # Base64Name /\ encoding # HexName THEN Rejected("Error")
             ELSE IF ~saltString.ok THEN Thrown(saltString.e)
             ELSE IF ~hashString.ok THEN Thrown(hashString.e)
             ELSE Resolved(Bool(toAscii(hashString.v)
                        = toAscii(Sha256(fromAscii(password.s \o toAscii(saltString.v))))))

\* hashPassword of Node.js: the encoded salt
NodeSalt(salt, encoding, saltBuffer) ==
    IF salt = Null
    THEN Ok(IF encoding = Base64Name THEN Base64Text(saltBuffer) ELSE toHex(saltBuffer))
    ELSE IF encoding = Base64Name THEN PaddingMatch(salt.s)
    ELSE Ok(salt.s)

\* hexMessage and hashService.update( hexMessage, "hex" ): the bytes hashed
NodeMessage(password, encoding, saltEncoded) ==
    NodeHexBytes(toHex(Utf8(password.s))
        \o (IF encoding = Base64Name THEN toHex(NodeBase64Bytes(saltEncoded))
            ELSE saltEncoded))

\* hashService.digest( encoding )
NodeDigest(message, encoding) ==
    IF encoding = Base64Name THEN Base64Text(Sha256(message)) ELSE toHex(Sha256(message))

\* hashPassword of Node.js
hashPasswordNode(password, salt, encoding, saltBuffer) ==
    IF InvalidHashArgs(password, salt, encoding) THEN Thrown("Error")
    ELSE LET saltEncoded == NodeSalt(salt, encoding, saltBuffer)
             hash == NodeDigest(NodeMessage(password, encoding, saltEncoded.v), encoding)
             hashMatch == PaddingMatch(hash)
         IN  IF ~saltEncoded.ok THEN Thrown("Error")
             ELSE IF encoding = Base64Name
             THEN IF ~hashMatch.ok THEN Thrown("Error")
                  ELSE Returned(Str(HashString(encoding, saltEncoded.v, hashMatch.v)))
             ELSE Returned(Str(HashString(encoding, saltEncoded.v, hash)))

\* checkPassword of Node.js
checkPasswordNode(password, hash) ==
    IF ~IsStr(password) \/ Len(password.s) = 0 \/ ~IsStr(hash) \/ Len(hash.s) = 0
    THEN Thrown("Error")
    ELSE LET hashMatch == HashMatch(hash.s)
             encoding == hashMatch.v[1]
             newHash == NodeDigest(NodeMessage(password, encoding, hashMatch.v[2]), encoding)
             newHashMatch == PaddingMatch(newHash)
         IN  IF ~hashMatch.ok THEN Returned(Null)
             ELSE IF encoding # Base64Name /\ encoding # HexName THEN Returned(Null)
             ELSE IF encoding = Base64Name
             THEN IF ~newHashMatch.ok THEN Thrown("Error")
                  ELSE Returned(Bool(hashMatch.v[3] = newHashMatch.v))
             ELSE Returned(Bool(hashMatch.v[3] = newHash))

SaltBytes == 16

\* what getRandomValues and randomBytes fill the new salt with: zero bytes,
\* bytes of 255, and bytes that count up from "$" past "=" and "A"
SaltBuffers ==
    { [i \in 1..SaltBytes |-> Ch(0)],
      [i \in 1..SaltBytes |-> Ch(255)],
      [i \in 1..SaltBytes |-> Ch((11 + 25 * i) % 256)] }

\* "a", "ab", a character above 255, and "$="
HashPasswords == { Chars(<<97>>), Chars(<<97, 98>>), Chars(<<353>>), Chars(<<36, 61>>) }

\* the salts a caller supplies: "AA==", "AAA=", "AAAA", "AA", "/+8", "00ff",
\* "AB", the encoded salts of a hash made before, with and without padding;
\* and "=", "A", "a$", "abc", "AA=", which are no salts
SuppliedSalts ==
    { Chars(<<65, 65, 61, 61>>), Chars(<<65, 65, 65, 61>>), Chars(<<65, 65, 65, 65>>),
      Chars(<<65, 65>>), Chars(<<47, 43, 56>>), Chars(<<48, 48, 102, 102>>),
      Chars(<<65, 66>>) }
        \cup { Base64Text(b) : b \in SaltBuffers }
        \cup { PaddingMatch(Base64Text(b)).v : b \in SaltBuffers }
        \cup { toHex(b) : b \in SaltBuffers }
        \cup { Chars(<<61>>), Chars(<<65>>), Chars(<<97, 36>>), Chars(<<97, 98, 99>>),
               Chars(<<65, 65, 61>>) }

\* "base64", "hex", and "b", which names no encoding
Encodings == { Base64Name, HexName, Chars(<<98>>) }

\* "$ceph1$hex$00", "$ceph1$b$00$00", "$ceph1$base64$A$AA", "$ceph1$hex$0$00"
BadHashes ==
    { <<Ch(Dollar)>> \o Ceph1 \o <<Ch(Dollar)>> \o HexName \o Chars(<<36, 48, 48>>),
      HashString(Chars(<<98>>), Chars(<<48, 48>>), Chars(<<48, 48>>)),
      HashString(Base64Name, Chars(<<65>>), Chars(<<65, 65>>)),
      HashString(HexName, Chars(<<48>>), Chars(<<48, 48>>)) }

\* the hash strings a caller passes: the one hashPassword made, and others
Hashes == BadHashes \cup { << >> } \cup (IF sym = Null THEN {} ELSE {sym.str})

\* the caller keeps the hash string of its last call of hashPassword, and what
\* it was made of
Hashed(platform, password, salt, encoding, out) ==
    IF out.kind \in {"resolved", "returned"}
    THEN [str |-> out.v.s, platform |-> platform, password |-> password,
          salt |-> salt, encoding |-> encoding]
    ELSE Null

\* a call of a function of the crypto object
Outcome(op, platform, args, out) ==
    [op |-> op, sess |-> platform, args |-> args, out |-> out, held |-> NoSession]

\* a call of hashPassword in the browser and the settling of its promise
hashPasswordCall(password, salt, encoding, saltBuffer) ==
    /\ LET out == hashPassword(password, salt, encoding, saltBuffer)
       IN  /\ last' = Outcome("hashPassword", "browser", <<password, salt, Str(encoding)>>, out)
           /\ sym' = Hashed("browser", password, salt, encoding, out)
    /\ UNCHANGED <<sess, db, stores, calls, nextKey, exported, env>>

\* a call of checkPassword in the browser and the settling of its promise
checkPasswordCall(password, hash) ==
    /\ last' = Outcome("checkPassword", "browser", <<password, Str(hash)>>,
                       checkPassword(password, Str(hash)))
    /\ UNCHANGED <<sess, db, stores, calls, nextKey, exported, env, sym>>

\* a call of hashPassword in Node.js
hashPasswordNodeCall(password, salt, encoding, saltBuffer) ==
    /\ LET out == hashPasswordNode(password, salt, encoding, saltBuffer)
       IN  /\ last' = Outcome("hashPassword", "node", <<password, salt, Str(encoding)>>, out)
           /\ sym' = Hashed("node", password, salt, encoding, out)
    /\ UNCHANGED <<sess, db, stores, calls, nextKey, exported, env>>

\* a call of checkPassword in Node.js
checkPasswordNodeCall(password, hash) ==
    /\ last' = Outcome("checkPassword", "node", <<password, Str(hash)>>,
                       checkPasswordNode(password, Str(hash)))
    /\ UNCHANGED <<sess, db, stores, calls, nextKey, exported, env, sym>>

\* hashMatch[2] of a hash string: its salt, as it is encoded there
SaltOf(hash) == HashMatch(hash).v[2]

\* crypto.queryPasswordSalt of the browser; window.atob throws
queryPasswordSalt(hash) ==
    IF ~IsStr(hash) \/ Len(hash.s) = 0 THEN Thrown("Error")
    ELSE LET hashMatch == HashMatch(hash.s)
             binary == Base64Bytes(hashMatch.v[2])
         IN  IF ~hashMatch.ok THEN Returned(Null)
             ELSE IF hashMatch.v[1] = Base64Name THEN Returned(Str(hashMatch.v[2]))
             ELSE IF hashMatch.v[1] = HexName
             THEN IF ~binary.ok THEN Thrown(binary.e)
                  ELSE Returned(Str(toHex(fromAscii(binary.v))))
             ELSE Returned(Null)

\* queryPasswordSalt of Node.js
queryPasswordSaltNode(hash) ==
    IF ~IsStr(hash) \/ Len(hash.s) = 0 THEN Thrown("Error")
    ELSE LET hashMatch == HashMatch(hash.s)
         IN  IF ~hashMatch.ok THEN Returned(Null)
             ELSE IF hashMatch.v[1] # Base64Name /\ hashMatch.v[1] # HexName
             THEN Returned(Null)
             ELSE IF hashMatch.v[1] = Base64Name THEN Returned(Str(hashMatch.v[2]))
             ELSE Returned(Str(Base64Text(NodeHexBytes(hashMatch.v[2]))))

\* a further call of hashPassword in the browser, for the password and the
\* encoding of the hash string the caller keeps
hashPasswordAgainCall(salt, saltBuffer) ==
    /\ last' = Outcome("hashPassword", "browser", <<sym.password, salt, Str(sym.encoding)>>,
                       hashPassword(sym.password, salt, sym.encoding, saltBuffer))
    /\ UNCHANGED <<sess, db, stores, calls, nextKey, exported, env, sym>>

\* a further call of hashPassword in Node.js
hashPasswordNodeAgainCall(salt, saltBuffer) ==
    /\ last' = Outcome("hashPassword", "node", <<sym.password, salt, Str(sym.encoding)>>,
                       hashPasswordNode(sym.password, salt, sym.encoding, saltBuffer))
    /\ UNCHANGED <<sess, db, stores, calls, nextKey, exported, env, sym>>

\* a call of queryPasswordSalt in the browser
queryPasswordSaltCall(hash) ==
    /\ last' = Outcome("queryPasswordSalt", "browser", <<Str(hash)>>,
                       queryPasswordSalt(Str(hash)))
    /\ UNCHANGED <<sess, db, stores, calls, nextKey, exported, env, sym>>

\* a call of queryPasswordSalt in Node.js
queryPasswordSaltNodeCall(hash) ==
    /\ last' = Outcome("queryPasswordSalt", "node", <<Str(hash)>>,
                       queryPasswordSaltNode(Str(hash)))
    /\ UNCHANGED <<sess, db, stores, calls, nextKey, exported, env, sym>>

\* the salts a caller takes from the hash string it keeps: the salt as the
\* hash string holds it
KeptSalts == IF HashMatch(sym.str).ok THEN {Str(SaltOf(sym.str))} ELSE {}

HashedIn(platform) == sym # Null /\ sym.platform = platform

\* the password hashes: the caller hashes a password, then checks passwords
\* against the hash string
NextHash ==
    \/ Waiting /\ sym = Null
        /\ \E password \in {Str(p) : p \in HashPasswords \cup {<< >>}},
              salt \in {Null} \cup {Str(t) : t \in SuppliedSalts \cup {<< >>}},
              encoding \in Encodings, saltBuffer \in SaltBuffers :
            hashPasswordCall(password, salt, encoding, saltBuffer)
    \/ Waiting /\ HashedIn("browser")
        /\ \E password \in {Str(p) : p \in HashPasswords \cup {<< >>}}, hash \in Hashes :
            checkPasswordCall(password, hash)
    \/ Waiting /\ sym = Null
        /\ \E password \in {Str(p) : p \in HashPasswords \cup {<< >>}},
              salt \in {Null} \cup {Str(t) : t \in SuppliedSalts \cup {<< >>}},
              encoding \in Encodings, saltBuffer \in SaltBuffers :
            hashPasswordNodeCall(password, salt, encoding, saltBuffer)
    \/ Waiting /\ HashedIn("node")
        /\ \E password \in {Str(p) : p \in HashPasswords \cup {<< >>}}, hash \in Hashes :
            checkPasswordNodeCall(password, hash)
    \/ Waiting /\ HashedIn("browser")
        /\ \E salt \in KeptSalts, saltBuffer \in SaltBuffers :
            hashPasswordAgainCall(salt, saltBuffer)
    \/ Waiting /\ HashedIn("node")
        /\ \E salt \in KeptSalts, saltBuffer \in SaltBuffers :
            hashPasswordNodeAgainCall(salt, saltBuffer)
    \/ Waiting /\ HashedIn("browser") /\ \E hash \in Hashes : queryPasswordSaltCall(hash)
    \/ Waiting /\ HashedIn("node") /\ \E hash \in Hashes : queryPasswordSaltNodeCall(hash)
    \/ TakeResult

SpecHash == Init /\ [][NextHash]_vars

(***************************************************************************)
(* The caller of BufferTools                                               *)
(***************************************************************************)
\* what the random source returns during one call of fromObject: those of the
\* envelopes, and one with 64 and 20 bytes of noise that are "{", "}", 0 and 7,
\* with 0 for the replacement
BufferRnds ==
    Rnds \cup { [iv |-> 0, cfg |-> <<49, 255, 0>>, noise |-> <<0, 123, 125, 7>>, key |-> 0] }

\* the objects a caller passes to fromObject: {}, { id: 1 }, { data: 1 }, null,
\* [], [ { id: 1 } ], and 1, which is no object
BufferObjects ==
    Objects \cup { Null, ArrayOf(<< >>), ArrayOf(<<PlainObj(1)>>), Num(1) }

\* the buffers a caller passes: none, one and more bytes, "{}" among them
Buffers ==
    { << >>, Chars(<<0>>), Chars(<<255, 16, 10>>), Chars(<<123, 125>>),
      Chars(<<171, 205, 239, 1>>) }

\* "", "00ff", "AbCd", "0A1b2C3d"; and "a", "abc", "zz", "0g", "G0", " 0"
HexTexts ==
    { << >>, Chars(<<48, 48, 102, 102>>), Chars(<<65, 98, 67, 100>>),
      Chars(<<48, 65, 49, 98, 50, 67, 51, 100>>),
      Chars(<<97>>), Chars(<<97, 98, 99>>), Chars(<<122, 122>>), Chars(<<48, 103>>),
      Chars(<<71, 48>>), Chars(<<32, 48>>) }

\* "", "a", three characters up to 255, and two strings with a character above
AsciiTexts ==
    { << >>, Chars(<<97>>), Chars(<<0, 128, 255>>), Chars(<<353>>), Chars(<<97, 256>>) }

MaxCut == 5
CutPositions == (0 - MaxCut)..MaxCut

\* the caller keeps what its first call returned, with the call
Kept(op, args, out) ==
    IF out.kind = "returned" THEN [op |-> op, args |-> args, v |-> out.v] ELSE Null

\* what the caller passes: one of `base` in its first call, then what a call of
\* op returned
Given(op, base) ==
    IF sym = Null THEN base ELSE IF sym.op = op THEN {sym.v} ELSE {}

\* a function of BufferTools returns or throws
BufferCall(op, args, out) ==
    /\ last' = Outcome(op, "BufferTools", args, out)
    /\ sym' = IF sym = Null THEN Kept(op, args, out) ELSE sym
    /\ UNCHANGED <<sess, db, stores, calls, nextKey, exported, env>>

AsReturn(r) == IF r.ok THEN Returned(r.v) ELSE Thrown(r.e)

fromObjectCall(dataObject, addNoise, rnd) ==
    BufferCall("fromObject", <<dataObject, Bool(addNoise)>>,
               AsReturn(fromObject(dataObject, addNoise, rnd)))

toObjectCall(dataBuffer) ==
    BufferCall("toObject", <<dataBuffer>>, AsReturn(toObject(dataBuffer)))

toHexCall(dataBuffer) ==
    BufferCall("toHex", <<dataBuffer>>, Returned(toHex(dataBuffer)))

fromHexCall(dataString) ==
    BufferCall("fromHex", <<dataString>>, AsReturn(fromHex(dataString)))

toAsciiCall(dataBuffer) ==
    BufferCall("toAscii", <<dataBuffer>>, Returned(toAscii(dataBuffer)))

fromAsciiCall(dataString) ==
    BufferCall("fromAscii", <<dataString>>, Returned(fromAscii(dataString)))

concatCall(a, b) ==
    BufferCall("concat", <<a, b>>, Returned(concat(<<a, b>>)))

splitInTwoCall(dataBuffer12, splitPos) ==
    BufferCall("splitInTwo", <<dataBuffer12, Num(splitPos)>>,
               Returned(splitInTwo(dataBuffer12, splitPos)))

\* BufferTools: the caller calls a function, then functions on what it returned
NextBuffers ==
    \/ Waiting /\ sym = Null
        /\ \E dataObject \in BufferObjects, addNoise \in BOOLEAN, rnd \in BufferRnds :
            fromObjectCall(dataObject, addNoise, rnd)
    \/ Waiting /\ \E dataBuffer \in Given("fromObject", Buffers) : toObjectCall(dataBuffer)
    \/ Waiting /\ \E dataBuffer \in Given("fromHex", Buffers) : toHexCall(dataBuffer)
    \/ Waiting /\ \E dataString \in Given("toHex", HexTexts) : fromHexCall(dataString)
    \/ Waiting /\ \E dataBuffer \in Given("fromAscii", Buffers) : toAsciiCall(dataBuffer)
    \/ Waiting /\ \E dataString \in Given("toAscii", AsciiTexts) : fromAsciiCall(dataString)
    \/ Waiting /\ sym = Null /\ \E a \in Buffers, b \in Buffers : concatCall(a, b)
    \/ Waiting /\ \E dataBuffer12 \in Given("concat", Buffers), splitPos \in CutPositions :
            splitInTwoCall(dataBuffer12, splitPos)
    \/ TakeResult

SpecBuffers == Init /\ [][NextBuffers]_vars

(***************************************************************************)
(* Overlapping calls.  The caller starts a call while others are in flight. *)
(* A callback attached to a storage request runs as a microtask of the     *)
(* request's success event: resolve() in request.onsuccess settles the     *)
(* promise, and the .then callbacks that wait for it run before the event  *)
(* loop takes the next task, be it another request's success event, an     *)
(* answer of the crypto provider or a call of the caller.                  *)
(***************************************************************************)
\* the callbacks that wait for a storage request, or follow a callback that
\* returned a value and no promise
MicrotaskSteps == {"gen6", "load1", "imp4"}

\* the call's next callback is a microtask that is already queued
Microtask(c) == calls[c] # Idle /\ calls[c].pc \in MicrotaskSteps

\* an event loop that takes tasks while microtasks are queued
AnyTurn(c) == TRUE

\* the event loop may run a step of call c: no other call has a microtask queued
Turn(c) == \A d \in Slots : Microtask(d) => d = c

\* the event loop may take a new task: no microtask is queued
Quiet == \A d \in Slots : ~Microtask(d)

HasFreeSlot == \E c \in Slots : calls[c] = Idle

\* the steps of generateKeyPair
GenerateStep(c) ==
    \/ DbOpened(c) \/ DbPut(c)
    \/ generateKeyPairThen1(c) \/ generateKeyPairThen2(c) \/ generateKeyPairThen3(c)
    \/ generateKeyPairThen4(c) \/ generateKeyPairThen5(c) \/ generateKeyPairThen6(c)

\* generateKeyPair calls that overlap, in a session that keeps its access path
NextRace ==
    \/ Quiet /\ \E name \in DbNames : serveFullObject(name)
    \/ Quiet /\ HasFreeSlot
        /\ \E s \in DbNames, exportPassword \in {Null} \cup {Str(p) : p \in ExportPasswords} :
                generateKeyPairStart(s, exportPassword)
    \/ \E c \in Slots : Turn(c) /\ GenerateStep(c)

\* the steps of generateKeyPair but the callback that waits for encryptData
PromptStep(c) ==
    \/ DbOpened(c) \/ DbPut(c)
    \/ generateKeyPairThen1(c) \/ generateKeyPairThen2(c) \/ generateKeyPairThen3(c)
    \/ generateKeyPairThen5(c) \/ generateKeyPairThen6(c)

\* the crypto provider and IndexedDB answer every request and every queued
\* callback runs: no call waits for ever, for encryptData neither
SpecRace ==
    /\ Init /\ [][NextRace]_vars
    /\ WF_vars(\E c \in Slots : Turn(c) /\ PromptStep(c))
    /\ \A c \in Slots : []<>~Running(c, "gen4")

\* the key-pairs generated while the caller changes the access path
MaxPathKeys == 1

\* the steps of the calls that read, write or delete a record of the Key Store
PathStep(c) ==
    \/ GenerateStep(c)
    \/ importPrivateKeyThen1(c) \/ importPrivateKeyThen2(c)
    \/ importPrivateKeyThen3(c) \/ importPrivateKeyThen4(c)
    \/ DbGet(c) \/ loadKeyPairThen(c)
    \/ DbDelete(c)

\* calls that overlap in a session whose access path the caller changes between
\* them: setAccessPath returns at once, whatever is in flight
NextPaths ==
    \/ Quiet /\ \E name \in DbNames : serveFullObject(name)
    \/ Quiet /\ \E s \in DbNames, accessPath \in Paths : setAccessPath(s, accessPath)
    \/ Quiet /\ HasFreeSlot /\ nextKey < MaxPathKeys
        /\ \E s \in DbNames, exportPassword \in {Null} \cup {Str(p) : p \in ExportPasswords} :
                generateKeyPairStart(s, exportPassword)
    \/ Quiet /\ HasFreeSlot
        /\ \E s \in DbNames, e \in exported : importPrivateKeyStart(s, e.str, e.password)
    \/ Quiet /\ HasFreeSlot /\ \E s \in DbNames : loadKeyPairStart(s)
    \/ Quiet /\ HasFreeSlot /\ \E s \in DbNames : removeKeyPairStart(s)
    \/ \E c \in Slots : Turn(c) /\ PathStep(c)

SpecPaths == Init /\ [][NextPaths]_vars

\* the key-pairs generated while removeKeyPair calls overlap
MaxRemoveKeys == 2

\* the steps of generateKeyPair, importPrivateKey and removeKeyPair
RemoveStep(c) ==
    \/ GenerateStep(c)
    \/ importPrivateKeyThen1(c) \/ importPrivateKeyThen2(c)
    \/ importPrivateKeyThen3(c) \/ importPrivateKeyThen4(c)
    \/ DbDelete(c)

\* one session that keeps its access path: generateKeyPair and importPrivateKey
\* are called when no call is in flight, removeKeyPair at any time
NextRemove ==
    \/ AllIdle /\ \E name \in DbNames : ~Exists(name) /\ serveFullObject(name)
    \/ AllIdle /\ nextKey < MaxRemoveKeys
        /\ \E s \in DbNames, exportPassword \in {Null} \cup {Str(p) : p \in ExportPasswords} :
                generateKeyPairStart(s, exportPassword)
    \/ AllIdle
        /\ \E s \in DbNames, e \in exported, exportPassword \in ImportPasswords :
                importPrivateKeyStart(s, e.str, exportPassword)
    \/ Quiet /\ HasFreeSlot /\ \E s \in DbNames : removeKeyPairStart(s)
    \/ \E c \in Slots : Turn(c) /\ RemoveStep(c)

SpecRemove == Init /\ [][NextRemove]_vars

\* the calls of a session that read, write or delete its record
SharedCall(s) ==
    \/ generateKeyPairStart(s, Null)
    \/ loadKeyPairStart(s)
    \/ removeKeyPairStart(s)

\* the steps of these calls
SharedStep(c) ==
    \/ GenerateStep(c)
    \/ DbGet(c) \/ loadKeyPairThen(c)
    \/ DbDelete(c)

\* a page that serves sessions for two databases; the caller waits for a call
\* to settle before the next
NextShared ==
    \/ Waiting /\ \E name \in Databases : serveFullObject(name)
    \/ Waiting /\ \E s \in Databases : SharedCall(s)
    \/ \E c \in Slots : SharedStep(c)
    \/ TakeResult

SpecShared == Init /\ [][NextShared]_vars

(***************************************************************************)
(* The hybrid envelope: the claims C1, C2 and C4                           *)
(***************************************************************************)
\* a call has settled and the caller has not taken its outcome yet
Settled(op) == AllIdle /\ last # NoResult /\ last.op = op

\* decryptObject has settled on the envelope encryptObject returned last
DecryptedEnvelope ==
    /\ Settled("decryptObject")
    /\ env # Null
    /\ last.args = <<Str(env.key), Str(env.message)>>

\* the session of the settled call holds the private key of modulus mod
HoldsPair(mod) ==
    /\ hasKeyPair(sess[last.sess])
    /\ sess[last.sess].privateKey.mod = mod

\* C1: whenever decryptObject settles on the envelope that encryptObject( o, v )
\* made, v in {1, 2}, in a session that holds the private key of the public key
\* the envelope was made for, it resolves with o
C1_RoundTrip ==
    (DecryptedEnvelope /\ HoldsPair(env.mod)) => last.out = Resolved(env.obj)

\* C2: whenever decryptObject settles on an envelope made for the public key of
\* key-pair A, in a session that holds another key-pair B, it has resolved with
\* false: it has not thrown, not rejected and not resolved with an object
C2_OtherPairFalse ==
    (DecryptedEnvelope /\ hasKeyPair(sess[last.sess]) /\ ~HoldsPair(env.mod))
        => last.out = Resolved(Bool(FALSE))

\* C2, reached: an envelope made under key-pair 1 was given to a session that
\* holds key-pair 2, and the call resolved with false
C2_Witness ==
    /\ DecryptedEnvelope
    /\ env.mod = 1
    /\ HoldsPair(2)
    /\ last.out = Resolved(Bool(FALSE))

\* the session of the call that settled, and the record under its access path
Subject == sess[last.sess]
SubjectRecord == stores[Subject.dbName.name][Subject.accessPath]

\* the entry of the private key string importPrivateKey was called with
ImportedEntries == {e \in exported : last.args[1] = Str(e.str)}

\* C4: importPrivateKey( s, p ), s and p of generateKeyPair( p ), resolves with
\* true; then the session has the key-pair, s and the public key string of the
\* generating session, the record under its access path is that bundle, and
\* envelopes made for the public key decrypt in it to the object they hold
C4_ImportRestores ==
    /\ \A e \in exported :
        (Settled("importPrivateKey") /\ last.args = <<Str(e.str), Str(e.password)>>)
            => /\ last.out = Resolved(Bool(TRUE))
               /\ hasKeyPair(Subject)
               /\ getPrivateKeyString(Subject) = Str(e.str)
               /\ getPublicKeyString(Subject) = Str(e.pub)
               /\ SubjectRecord =
                    [public |-> Subject.publicKey, private |-> Subject.privateKey,
                     publicExport |-> Str(e.pub), privateExport |-> Str(e.str)]
    /\ (DecryptedEnvelope /\ Subject.origin = "importPrivateKey" /\ HoldsPair(env.mod))
            => last.out = Resolved(env.obj)

\* the key or the message of the settled decryptObject is no Base64 text
NotBase64 ==
    \/ ~atob(last.args[1].s).ok
    \/ ~atob(VersionTag(last.args[2].s).rest).ok

\* the message of the settled decryptObject names a version other than 1, 2
UnknownVersion == VersionAlgo(VersionTag(last.args[2].s).version).name = ""

\* C16: whenever decryptObject settles without a key-pair, on a key or message
\* that is no Base64 text, on an unknown version tag, or on an envelope whose
\* plain text holds no JSON object toObject finds, its promise is rejected;
\* and it resolves with false in none of these cases
C16_FailuresReject ==
    Settled("decryptObject") =>
        /\ ((~hasKeyPair(Subject)) \/ NotBase64 \/ UnknownVersion)
                => last.out.kind = "rejected"
        /\ (DecryptedEnvelope /\ HoldsPair(env.mod) /\ env.obj = EmptyObj)
                => last.out.kind = "rejected"

\* the arguments of the settled encryptObject are an object and a version
EncryptableArgs == TypeofObject(last.args[1]) /\ last.args[2].i \in Versions

\* C17: whenever encryptObject settles on an object and a version, it has
\* resolved with an envelope if the session holds a public key and was rejected
\* if it holds none; whenever decryptObject settles in a session without a
\* private key, it was rejected
C17_KeyRequired ==
    /\ (Settled("encryptObject") /\ EncryptableArgs)
            => IF hasPublicKey(Subject)
               THEN /\ last.out.kind = "resolved"
                    /\ last.out.v.kind = "envelope"
                    /\ env.mod = Subject.publicKey.mod
               ELSE last.out.kind = "rejected"
    /\ (Settled("decryptObject") /\ ~IsCryptoKey(Subject.privateKey))
            => last.out.kind = "rejected"

\* C17, reached: in the public-only state importPublicKey leaves,
\* decryptObject was rejected on an envelope encryptObject made for the public
\* key of the session
C17_Witness ==
    /\ DecryptedEnvelope
    /\ Subject.origin = "importPublicKey"
    /\ hasPublicKey(Subject) /\ ~hasKeyPair(Subject)
    /\ env.mod = Subject.publicKey.mod
    /\ last.out.kind = "rejected"

(***************************************************************************)
(* The key management: the claims C3, C5, C8, C9 and C10                   *)
(***************************************************************************)
\* C3: whenever importPrivateKey( s, q ) settles, s made by generateKeyPair( p )
\* and q a non-empty password other than p, it has resolved with false
C3_OnlyExportPassword ==
    Settled("importPrivateKey") =>
        \A e \in ImportedEntries :
            (last.args[2] # Str(e.password) /\ Len(last.args[2].s) > 0)
                => last.out = Resolved(Bool(FALSE))

\* C5: whenever importPrivateKey has resolved with false, the four key fields
\* of the session are null and hasKeyPair() is false
C5_FailedImportClears ==
    (Settled("importPrivateKey") /\ last.out = Resolved(Bool(FALSE)))
        => /\ Subject.publicKey = Null /\ Subject.privateKey = Null
           /\ Subject.publicKeyExport = Null /\ Subject.privateKeyExport = Null
           /\ ~hasKeyPair(Subject)

NonExportable(key) == IsCryptoKey(key) => ~key.extractable

\* C8: in every state the private key handle of a session, of a record of the
\* Key Store, and of the bundle a call is about to store and assign, is not
\* extractable
C8_PrivateNonExportable ==
    /\ \A s \in SessIds : Exists(s) => NonExportable(sess[s].privateKey)
    /\ \A d \in DbNames, p \in Paths :
            stores[d][p] # Null => NonExportable(stores[d][p].private)
    /\ \A c \in Slots : calls[c] # Idle => NonExportable(calls[c].keys.private)

\* C8, reached: a session and the record under its access path hold the
\* private key handle of a key-pair generated with an export password
C8_Witness ==
    \E s \in DbNames :
        /\ Exists(s) /\ hasKeyPair(sess[s])
        /\ sess[s].origin = "generateKeyPair"
        /\ IsStr(sess[s].privateKeyExport)
        /\ stores[s][sess[s].accessPath] # Null
        /\ stores[s][sess[s].accessPath].private = sess[s].privateKey
        /\ ~sess[s].privateKey.extractable

\* C9: whenever generateKeyPair has resolved, the record under the access path
\* of the session is the bundle the session holds, and a session that takes
\* this record as loadKeyPair does has the key-pair and the same two strings
C9_StoredBundle ==
    (Settled("generateKeyPair") /\ last.out = Resolved(Undefined))
        => /\ hasKeyPair(Subject)
           /\ SubjectRecord =
                [public |-> Subject.publicKey, private |-> Subject.privateKey,
                 publicExport |-> Subject.publicKeyExport,
                 privateExport |-> Subject.privateKeyExport]
           /\ LET loaded == TakeRecord(ClearKeys(Subject), SubjectRecord)
              IN  /\ hasKeyPair(loaded)
                  /\ getPublicKeyString(loaded) = getPublicKeyString(Subject)
                  /\ getPrivateKeyString(loaded) = getPrivateKeyString(Subject)

\* C9, reached: generateKeyPair with an export password has resolved in a
\* session whose access path is not the default one
C9_Witness ==
    /\ Settled("generateKeyPair") /\ last.out = Resolved(Undefined)
    /\ Subject.accessPath = "other"
    /\ IsStr(Subject.privateKeyExport)
    /\ SubjectRecord # Null

\* the private exports of the sessions and of the records of the Key Store
PrivateExports ==
    {sess[s].privateKeyExport : s \in {n \in SessIds : Exists(n)}}
        \cup {stores[d[1]][d[2]].privateExport :
                d \in {x \in DbNames \X Paths : stores[x[1]][x[2]] # Null}}

\* a call in flight that is about to hand out the private export x
HandsOut(x) ==
    \E c \in Slots :
        /\ calls[c] # Idle
        /\ calls[c].keys.privateExport = x
        /\ \/ calls[c].op = "generateKeyPair" /\ ExportPassword(c) # Null
           \/ calls[c].op = "importPrivateKey" /\ calls[c].args[1] = x

\* C10: after generateKeyPair() without a password has resolved,
\* getPrivateKeyString() is null and the stored record has no private export;
\* every private export of a session or record starts with "$ceph1-priv$hex$"
\* and was made by generateKeyPair( p ) or given to an importPrivateKey that
\* stored it
C10_PrivateExportOrigin ==
    /\ (Settled("generateKeyPair") /\ last.args[1] = Null
            /\ last.out = Resolved(Undefined))
            => /\ getPrivateKeyString(Subject) = Null
               /\ SubjectRecord # Null
               /\ ~IsStr(SubjectRecord.privateExport)
    /\ \A x \in PrivateExports :
            IsStr(x) => /\ Take(x.s, PrefixLength) = PrivPrefix
                        /\ \/ x.s \in {e.str : e \in exported}
                           \/ HandsOut(x)

\* C10, reached: generateKeyPair() without a password has resolved and the
\* session has the key-pair
C10_Witness ==
    /\ Settled("generateKeyPair") /\ last.args[1] = Null
    /\ last.out = Resolved(Undefined)
    /\ hasKeyPair(Subject)
    /\ getPrivateKeyString(Subject) = Null

\* the four key fields of a session
KeyFields(session) ==
    <<session.publicKey, session.privateKey,
      session.publicKeyExport, session.privateKeyExport>>

\* the four key fields are null
Empty(session) == KeyFields(session) = <<Null, Null, Null, Null>>

\* the session has a database binding and the Key Store is initialised
Bound(session) == session.dbName # Null /\ isReady

\* C11: whenever loadKeyPair settles in a session with a database binding, it
\* has resolved; if there is a record under the access path the four fields
\* are those of the record (null for one the record lacks), else all four are
\* null; no field is left of the keys the session held before
C11_LoadTakesRecord ==
    (Settled("loadKeyPair") /\ Bound(Subject))
        => /\ last.out = Resolved(Undefined)
           /\ IF SubjectRecord # Null
              THEN /\ KeyFields(Subject) =
                        <<OrNull(SubjectRecord.public), OrNull(SubjectRecord.private),
                          OrNull(SubjectRecord.publicExport),
                          OrNull(SubjectRecord.privateExport)>>
                   /\ Subject.origin = "loadKeyPair"
              ELSE /\ Empty(Subject)
                   /\ Subject.origin = "none"

\* C11, reached: loadKeyPair has resolved in a session that held another
\* key-pair than the one of the record, and holds the one of the record now
C11_Witness ==
    /\ Settled("loadKeyPair") /\ last.out = Resolved(Undefined)
    /\ hasKeyPair(last.held)
    /\ SubjectRecord # Null
    /\ hasKeyPair(Subject)
    /\ Subject.publicKey = SubjectRecord.public
    /\ Subject.publicKey.mod # last.held.publicKey.mod

\* a step of a call of op: the call starts, one of its callbacks runs, or it
\* settles
StepOf(op) ==
    \/ \E c \in Slots : calls[c] # Idle /\ calls[c].op = op /\ calls'[c] # calls[c]
    \/ \E c \in Slots : calls[c] = Idle /\ calls'[c] # Idle /\ calls'[c].op = op
    \/ last' # last /\ last' # NoResult /\ last'.op = op

\* a public key string "$ceph1-publ$jwk$<n>" with n a modulus
WellFormedPublic(keyString) ==
    /\ ~LacksPrefix(keyString, PublPrefix)
    /\ IsModulusText(Drop(keyString, PrefixLength))

\* importPublicKey has settled and the session is public-only, with the key
\* string the call was given
PublicOnly ==
    /\ last.out = Resolved(Undefined)
    /\ hasPublicKey(Subject)
    /\ getPublicKeyString(Subject) = last.args[1]
    /\ Subject.publicKey.type = "public"
    /\ PublPrefix \o ModulusText(Subject.publicKey.mod) = last.args[1].s
    /\ ~hasKeyPair(Subject)
    /\ Subject.privateKey = Null
    /\ getPrivateKeyString(Subject) = Null

\* C12: whenever importPublicKey( k ) settles for a well-formed k, in a session
\* with or without a database binding, it has resolved and the session is
\* public-only with getPublicKeyString() = k; whenever it resolves the session
\* is public-only; and no step of importPublicKey changes the Key Store
C12_PublicOnly ==
    /\ [](Settled("importPublicKey") =>
            /\ WellFormedPublic(last.args[1].s) => last.out = Resolved(Undefined)
            /\ last.out.kind = "resolved" => PublicOnly)
    /\ [][StepOf("importPublicKey") => stores' = stores]_vars

\* C12, reached: importPublicKey has resolved in a session that held a
\* key-pair with a private export, stored under its access path; the record is
\* still there and the session is public-only
C12_Witness ==
    /\ Settled("importPublicKey") /\ PublicOnly
    /\ hasKeyPair(last.held)
    /\ IsStr(last.held.privateKeyExport)
    /\ SubjectRecord # Null
    /\ SubjectRecord.private = last.held.privateKey

\* C14: whenever removeKeyPair settles in a session with a database binding,
\* whatever the session held and whether or not a record existed, it has
\* resolved, the four key fields are null, there is no record under the access
\* path, and a session that takes what is stored there as loadKeyPair does is
\* empty
C14_RemoveClears ==
    (Settled("removeKeyPair") /\ Bound(Subject))
        => /\ last.out = Resolved(Undefined)
           /\ Empty(Subject)
           /\ SubjectRecord = Null
           /\ Empty(TakeRecord(ClearKeys(Subject), SubjectRecord))

\* C14, reached: removeKeyPair has resolved in a session that held a key-pair
C14_Witness ==
    /\ Settled("removeKeyPair") /\ last.out = Resolved(Undefined)
    /\ hasKeyPair(last.held)
    /\ Empty(Subject)
    /\ SubjectRecord = Null

\* the operations that need the Key Store
StoreOps == {"generateKeyPair", "loadKeyPair", "importPrivateKey", "removeKeyPair"}

\* the arguments pass the checks the operation makes before it looks for the
\* Key Store
ValidArgs(op, args) ==
    IF op = "generateKeyPair" THEN args[1] = Null \/ Len(args[1].s) > 0
    ELSE IF op = "importPrivateKey"
        THEN (~LacksPrefix(args[1].s, PrivPrefix)) /\ Len(args[2].s) > 0
    ELSE TRUE

\* a step starts or settles a call of a Key Store operation, with valid
\* arguments, in session s
StoreOpStep(s) ==
    \/ /\ last' # last /\ last' # NoResult
       /\ last'.sess = s /\ last'.op \in StoreOps
       /\ ValidArgs(last'.op, last'.args)
    \/ \E c \in Slots :
        /\ calls'[c] # calls[c] /\ calls'[c] # Idle
        /\ calls'[c].sess = s /\ calls'[c].op \in StoreOps
        /\ ValidArgs(calls'[c].op, calls'[c].args)

\* C15: a call of generateKeyPair, loadKeyPair, importPrivateKey or
\* removeKeyPair with valid arguments, in a session without a database binding
\* or while the Key Store is not initialised, returns a rejected promise at
\* once and changes no session and no record of the Key Store
C15_UnboundRejects ==
    [][\A s \in SessIds :
        (Exists(s) /\ ~Bound(sess[s]) /\ StoreOpStep(s))
            => /\ calls' = calls
               /\ sess' = sess
               /\ stores' = stores
               /\ last'.out = Rejected("Error")]_vars

\* C15, reached: a Key Store operation was rejected in a session without a
\* database binding that holds a public key, while the Key Store has a record
C15_Witness ==
    /\ AllIdle /\ last # NoResult
    /\ last.op \in StoreOps /\ ValidArgs(last.op, last.args)
    /\ Subject.dbName = Null
    /\ last.out = Rejected("Error")
    /\ hasPublicKey(Subject)
    /\ KeyFields(Subject) = KeyFields(last.held)
    /\ \E d \in DbNames, p \in Paths : stores[d][p] # Null

\* the entries of the private export the session holds
HeldEntries == {e \in exported : Subject.privateKeyExport = Str(e.str)}

\* C13: whenever checkExportPassword( q ) settles, q non-empty, in a session
\* whose private export was made under password p, it has resolved: with true
\* if q = p and the public key string of the session has the modulus of the
\* exported key, with false in every other case
C13_ChecksPassword ==
    Settled("checkExportPassword") =>
        \A e \in HeldEntries :
            Len(last.args[1].s) > 0
                => last.out = Resolved(Bool(/\ last.args[1] = Str(e.password)
                                            /\ Subject.publicKeyExport = Str(e.pub)))

(***************************************************************************)
(* Overlapping calls: the claim C18                                        *)
(***************************************************************************)
\* the bundle a session holds
Bundle(session) ==
    [public |-> session.publicKey, private |-> session.privateKey,
     publicExport |-> session.publicKeyExport,
     privateExport |-> session.privateKeyExport]

\* the record under the access path of session s
RecordOf(s) == stores[sess[s].dbName.name][sess[s].accessPath]

\* every generateKeyPair call the caller started has resolved
AllResolved ==
    /\ AllIdle /\ nextKey > 0
    /\ last # NoResult /\ last.op = "generateKeyPair"
    /\ last.out = Resolved(Undefined)

\* the session holds the key-pair of one call, the record that of another
Mismatch(s) ==
    /\ Exists(s) /\ hasKeyPair(sess[s])
    /\ RecordOf(s) # Null
    /\ RecordOf(s).public.mod # sess[s].publicKey.mod

C6_NeverRejects ==
    (Settled("decryptData") /\ Len(last.args[1].s) > 0 /\ Len(last.args[2].s) > 0)
        => /\ last.out.kind = "resolved"
           /\ (last.out.v = Null \/ IsStr(last.out.v))

\* C7: whenever decryptData( e, p ) settles, e the string encryptData( s, p, v )
\* resolved with, v in {1, 2}, it has resolved with s
C7_DataRoundTrip ==
    (Settled("decryptData") /\ sym # Null
        /\ last.args = <<Str(sym.str), Str(sym.password)>>)
        => last.out = Resolved(Str(sym.data))

\* C7, reached: a string encryptData made with version 1 was decrypted with
\* its password
C7_Witness ==
    /\ Settled("decryptData") /\ sym # Null
    /\ last.args = <<Str(sym.str), Str(sym.password)>>
    /\ sym.version = 1
    /\ last.out = Resolved(Str(sym.data))

(***************************************************************************)
(* Overlapping calls and the access path: the claim C19                    *)
(***************************************************************************)
\* call c has a request to the Key Store in flight
InStorage(c) == calls[c] # Idle /\ calls[c].pc \in {"open", "put", "get", "delete"}

\* C19: a call started while the access path of its session is P reads, writes
\* or deletes the record under P and no other, whatever calls overlap with it:
\* every request to the Key Store addresses the path the session had when the
\* call was started
C19_OwnPathOnly ==
    \A c \in Slots : InStorage(c) => calls[c].key = calls[c].held.accessPath

(***************************************************************************)
(* The password hashes: the claim C20                                      *)
(***************************************************************************)
\* a Base64 text, with its padding or without it
IsBase64Salt(text) ==
    LET body == Unpadded(text)
    IN  /\ Len(body) > 0 /\ Len(body) % 4 # 1
        /\ \A i \in 1..Len(body) : SextetOf(body[i].c) # -1

\* an even number of hex digits
IsHexSalt(text) ==
    /\ Len(text) > 0 /\ Len(text) % 2 = 0
    /\ \A i \in 1..Len(text) : DigitIndex(ToLowerCase(text[i].c)) # -1

\* no salt, for hashPassword to make one, or a salt in the encoding
ValidSalt(salt, encoding) ==
    \/ salt = Null
    \/ encoding = Base64Name /\ IsBase64Salt(salt.s)
    \/ encoding = HexName /\ IsHexSalt(salt.s)

\* hashPassword has settled on a password, a valid salt and an encoding
HashedValid ==
    /\ Settled("hashPassword")
    /\ Len(last.args[1].s) > 0
    /\ last.args[3].s \in {Base64Name, HexName}
    /\ ValidSalt(last.args[2], last.args[3].s)

\* checkPassword has settled on the hash string hashPassword made of a valid
\* salt, and on the password it was made of
OwnHashChecked ==
    /\ Settled("checkPassword")
    /\ sym # Null /\ last.sess = sym.platform
    /\ last.args = <<sym.password, Str(sym.str)>>
    /\ ValidSalt(sym.salt, sym.encoding)

\* what a call gives that ends well with v
Gives(platform, v) == IF platform = "browser" THEN Resolved(v) ELSE Returned(v)

\* C20: for every non-empty password p and each of the encodings base64 and
\* hex, hashPassword(p, s, e) gives a hash string for no salt and for every
\* valid salt s, and checkPassword(p, h) is true for that hash string h,
\* whether hashPassword made the salt or the caller supplied it
C20_OwnHashChecks ==
    /\ HashedValid => last.out.kind = Gives(last.sess, Null).kind
    /\ OwnHashChecked => last.out = Gives(last.sess, Bool(TRUE))

\* C20, reached: checkPassword is true for p and a base64 hash string made of p
\* and of a salt the caller supplied with its padding, which the hash string
\* holds without it
C20_Witness ==
    /\ OwnHashChecked
    /\ last.out = Gives(last.sess, Bool(TRUE))
    /\ sym.encoding = Base64Name
    /\ sym.salt # Null /\ BeforeEquals(sym.salt.s) < Len(sym.salt.s)

(***************************************************************************)
(* The password hashes: the claims C21 to C24                              *)
(***************************************************************************)
\* hashPassword has settled on the password and the encoding of the hash string
\* h the caller keeps, which was made with a new salt, and on the salt of h
Rehashed ==
    /\ Settled("hashPassword")
    /\ sym # Null /\ last.sess = sym.platform
    /\ sym.salt = Null
    /\ last.args = <<sym.password, Str(SaltOf(sym.str)), Str(sym.encoding)>>

\* C21: for every password p and each of the encodings base64 and hex, if
\* h = hashPassword(p, null, e) and s is the salt of h, then hashPassword(p, s, e)
\* gives h again, character for character
C21_RehashReproduces ==
    Rehashed => last.out = Gives(last.sess, Str(sym.str))

\* the hash string names base64 or hex and holds a salt in that encoding
WellFormedHash(hash) ==
    /\ HashMatch(hash).ok
    /\ HashMatch(hash).v[1] \in {Base64Name, HexName}
    /\ ValidSalt(Str(SaltOf(hash)), HashMatch(hash).v[1])

\* the hash string has not the four parts, or names another encoding
MalformedHash(hash) ==
    \/ ~HashMatch(hash).ok
    \/ HashMatch(hash).v[1] \notin {Base64Name, HexName}

\* the bytes of the salt of a well-formed hash string
SaltBytesOf(hash) ==
    IF HashMatch(hash).v[1] = Base64Name THEN Base64Bytes(SaltOf(hash))
    ELSE fromHex(SaltOf(hash))

\* C22: for every well-formed hash string of the encoding base64 or hex,
\* queryPasswordSalt returns a Base64 text of the bytes of the salt; for every
\* string that has not the four parts or names another encoding it returns null
C22_SaltAsBase64 ==
    Settled("queryPasswordSalt") =>
        LET hash == last.args[1].s
        IN  /\ WellFormedHash(hash) =>
                /\ last.out.kind = "returned" /\ IsStr(last.out.v)
                /\ Base64Bytes(last.out.v.s) = SaltBytesOf(hash)
            /\ MalformedHash(hash) => last.out = Returned(Null)

\* C23: checkPassword fails with the error of invalid arguments, rejecting or
\* throwing, for every hash string that has not the four parts or names another
\* encoding than base64 and hex; it returns no value for it
C23_MalformedFails ==
    Settled("checkPassword") /\ MalformedHash(last.args[2].s) =>
        /\ last.out.kind \in {"rejected", "thrown"}
        /\ last.out.e = "Error"

\* checkPassword has settled on a non-empty password and on the hash string
\* hashPassword made of a password and a valid salt
HashChecked ==
    /\ Settled("checkPassword")
    /\ sym # Null /\ last.sess = sym.platform
    /\ last.args[2] = Str(sym.str)
    /\ Len(last.args[1].s) > 0
    /\ ValidSalt(sym.salt, sym.encoding)

\* C24: for all non-empty passwords p and q and every hash string
\* h = hashPassword(p, s, e), checkPassword(q, h) is true if and only if q = p
C24_OnlyOwnPassword ==
    HashChecked =>
        (last.out = Gives(last.sess, Bool(TRUE)) <=> last.args[1] = sym.password)


(***************************************************************************)
(* BufferTools: the claims C25 to C29                                      *)
(***************************************************************************)
\* toObject has settled on the buffer the caller's fromObject returned
Reverted ==
    /\ Settled("toObject")
    /\ sym # Null /\ sym.op = "fromObject"
    /\ last.args = <<sym.v>>

\* C25: toObject of the buffer fromObject made of an object returns an object
\* equal to it, with noise and without, whatever the random source returned
C25_ObjectRoundTrip ==
    Reverted /\ sym.args[1].t = "object" => last.out = Returned(sym.args[1])


\* fromObject has returned a buffer with noise
Noised ==
    /\ Settled("fromObject")
    /\ last.args[2] = Bool(TRUE)
    /\ last.out.kind = "returned"

\* the bytes `at` of buf are noise: none of them is "{", "}" or 0
NoiseAt(buf, at) ==
    \A i \in at : IsCh(buf[i]) /\ buf[i].c \notin {123, 125, 0}

\* buf is the body with n bytes of noise before it and m after it
Surrounded(buf, body, n, m) ==
    /\ Len(buf) = n + Len(body) + m
    /\ SubSeq(buf, n + 1, n + Len(body)) = body
    /\ NoiseAt(buf, (1..n) \cup ((n + Len(body) + 1)..Len(buf)))

\* every byte of the random source gives a length of 15 to 64, and every byte of
\* noise is none of "{", "}" and 0 after the loop, whatever byte the random
\* source gave for the replacement
EveryByteFiltered ==
    \A r \in 0..255 :
        /\ NoiseLength(r) \in 15..64
        /\ \A c \in 0..255 :
                NoiseAt(FilterNoise(<<Ch(c)>>, 1, NoiseReplacement(r)), {1})

\* C26: the buffer fromObject returns with noise is the JSON text with 15 to 64
\* bytes before it and 15 to 64 bytes after it, none of them "{", "}" or 0; the
\* first "{" and the last "}" of the buffer are those of an object's JSON text
C26_NoiseAround ==
    Noised =>
        LET buf == last.out.v
            body == fromAscii(JSONstringify(last.args[1]))
        IN  /\ EveryByteFiltered
            /\ \E n \in 15..64, m \in 15..64 :
                /\ Surrounded(buf, body, n, m)
                /\ last.args[1].t = "object" =>
                        /\ \A i \in 1..Len(buf) : buf[i] = Ch(123) => i >= n + 1
                        /\ \A i \in 1..Len(buf) : buf[i] = Ch(125) => i <= n + Len(body)
                        /\ buf[n + 1] = Ch(123) /\ buf[n + Len(body)] = Ch(125)

\* fromObject has returned an object's text after 64 bytes of noise, the first of
\* them the filler, and before 20
C26_Witness ==
    /\ Noised
    /\ last.args[1].t = "object"
    /\ Len(last.out.v) > 84
    /\ last.out.v[1] = Ch(NoiseFill) /\ last.out.v[65] = Ch(123)


\* `op` has settled on what the caller's first call, of `first`, returned
After(first, op) ==
    /\ Settled(op)
    /\ sym # Null /\ sym.op = first
    /\ last.args = <<sym.v>>

\* a string of hex digits in lower case
LowerHex(h) ==
    [i \in 1..Len(h) |-> IF h[i].c \in 65..70 THEN Ch(h[i].c + 32) ELSE h[i]]

\* the conversions give back every single byte
EveryByteReverts ==
    \A c \in 0..255 :
        /\ fromHex(toHex(<<Ch(c)>>)) = Ok(<<Ch(c)>>)
        /\ fromAscii(toAscii(<<Ch(c)>>)) = <<Ch(c)>>
        /\ toAscii(fromAscii(<<Ch(c)>>)) = <<Ch(c)>>

\* C27: fromHex gives back the bytes toHex was called with, and their hex digits
\* are those toHex returned; fromAscii gives back the bytes toAscii was called
\* with; toHex gives back, in lower case, the string of an even number of hex
\* digits fromHex was called with; toAscii gives back the string of characters
\* up to 255 fromAscii was called with
C27_ConversionsRevert ==
    /\ After("toHex", "fromHex") =>
            /\ last.out = Returned(sym.args[1])
            /\ toHex(last.out.v) = sym.v
            /\ EveryByteReverts
    /\ After("toAscii", "fromAscii") => last.out = Returned(sym.args[1])
    /\ After("fromHex", "toHex") => last.out = Returned(LowerHex(sym.args[1]))
    /\ After("fromAscii", "toAscii") /\ (\A i \in 1..Len(sym.args[1]) : sym.args[1][i].c <= 255)
            => last.out = Returned(sym.args[1])

\* fromAscii has returned the bytes 255, 16 and 10 for the string toAscii made
\* of them
C27_Witness ==
    /\ After("toAscii", "fromAscii")
    /\ sym.args[1] = Chars(<<255, 16, 10>>)
    /\ last.out = Returned(Chars(<<255, 16, 10>>))


\* where the cut falls in a buffer of n bytes
CutAt(n, cutPos) ==
    IF cutPos >= 0 THEN (IF cutPos < n THEN cutPos ELSE n)
    ELSE (IF n + cutPos > 0 THEN n + cutPos ELSE 0)

\* splitInTwo has settled on the buffer concat made of two buffers
Split ==
    /\ Settled("splitInTwo")
    /\ sym # Null /\ sym.op = "concat"
    /\ last.args[1] = sym.v

\* C28: splitInTwo returns the bytes before the cut and the bytes from it on, the
\* cut at cutPos or at the end of the buffer for a cutPos of 0 and more, and at
\* that many bytes before the end or at the start for one below 0; the two
\* parts make the buffer; cut at the length of a, the buffer concat made of a
\* and b gives a and b
C28_SplitAtCut ==
    /\ Settled("splitInTwo") =>
            LET b == last.args[1]
                n == Len(b)
                k == CutAt(n, last.args[2].i)
            IN  /\ last.out = Returned(<<SubSeq(b, 1, k), SubSeq(b, k + 1, n)>>)
                /\ last.out.v[1] \o last.out.v[2] = b
    /\ Split /\ last.args[2] = Num(Len(sym.args[1])) => last.out = Returned(sym.args)

\* splitInTwo has returned a and b, of one byte at least each, for the buffer
\* concat made of them and the length of b below 0
C28_Witness ==
    /\ Split
    /\ Len(sym.args[1]) > 0 /\ Len(sym.args[2]) > 0
    /\ last.args[2] = Num(0 - Len(sym.args[2]))
    /\ last.out = Returned(sym.args)


\* the value of a hexadecimal digit, in either case; -1 for another character
HexValue(c) ==
    IF c \in 48..57 THEN c - 48
    ELSE IF c \in 97..102 THEN c - 87
    ELSE IF c \in 65..70 THEN c - 55
    ELSE -1

\* a string of odd length, or with a character that is no hexadecimal digit
NotHex(str) ==
    \/ Len(str) % 2 = 1
    \/ \E i \in 1..Len(str) : HexValue(str[i].c) = -1

\* the bytes a string of hexadecimal digits stands for
Decoded(str) ==
    [k \in 1..(Len(str) \div 2) |->
        Ch(16 * HexValue(str[2 * k - 1].c) + HexValue(str[2 * k].c))]

\* fromHex fails for every pair of characters of which one is no hexadecimal
\* digit, and for no other pair
EveryPairDecoded ==
    \A c1 \in 0..255, c2 \in 0..255 :
        fromHex(<<Ch(c1), Ch(c2)>>) =
            IF NotHex(<<Ch(c1), Ch(c2)>>) THEN Throw("Error")
            ELSE Ok(Decoded(<<Ch(c1), Ch(c2)>>))

\* C29: fromHex throws an error for a string of odd length and for one with a
\* character that is no hexadecimal digit, and for no other string; for an even
\* number of hexadecimal digits, the empty string among them, it returns the
\* bytes they stand for, the same in upper and in lower case
C29_FromHexFails ==
    Settled("fromHex") =>
        LET str == last.args[1]
        IN  /\ NotHex(str) <=> last.out.kind = "thrown"
            /\ NotHex(str) => last.out = Thrown("Error")
            /\ ~NotHex(str) =>
                    /\ last.out = Returned(Decoded(str))
                    /\ fromHex(LowerHex(str)) = Ok(last.out.v)
            /\ EveryPairDecoded

\* fromHex has returned the bytes 171 and 205 for "AbCd"
C29_Witness ==
    /\ Settled("fromHex")
    /\ last.args[1] = Chars(<<65, 98, 67, 100>>)
    /\ last.out = Returned(Chars(<<171, 205>>))


(***************************************************************************)
(* The states of a session: the claim C30                                  *)
(***************************************************************************)
\* no handles and no export strings
NoKeysHeld(session) ==
    /\ ~IsCryptoKey(session.publicKey) /\ ~IsCryptoKey(session.privateKey)
    /\ ~IsStr(session.publicKeyExport) /\ ~IsStr(session.privateKeyExport)

\* the public handle and the public key string, no private handle
PublicKeyOnly(session) ==
    /\ IsCryptoKey(session.publicKey) /\ IsStr(session.publicKeyExport)
    /\ ~IsCryptoKey(session.privateKey)

\* the public handle, the public key string and the private handle
FullPair(session) ==
    /\ IsCryptoKey(session.publicKey) /\ IsStr(session.publicKeyExport)
    /\ IsCryptoKey(session.privateKey)

\* the handles and the public key string are of one modulus
SameModulus(session) ==
    /\ session.publicKey.type = "public"
    /\ session.publicKeyExport.s = PublPrefix \o ModulusText(session.publicKey.mod)
    /\ IsCryptoKey(session.privateKey) =>
            /\ session.privateKey.type = "private"
            /\ session.privateKey.mod = session.publicKey.mod

\* C30: calls one after the other leave every session with no handles and no
\* export strings, or with the public handle and the public key string and no
\* private handle, or with these two and the private handle; it never holds a
\* private handle without the public handle and the public key string of the
\* same modulus
C30_ThreeStates ==
    \A s \in SessIds : Exists(s) =>
        \/ NoKeysHeld(sess[s])
        \/ PublicKeyOnly(sess[s]) /\ SameModulus(sess[s])
        \/ FullPair(sess[s]) /\ SameModulus(sess[s])

\* importPublicKey has resolved, with the key of another pair, in a session that
\* held a key-pair: the session has the public key and no private handle
C30_Witness ==
    /\ Settled("importPublicKey") /\ last.out = Resolved(Undefined)
    /\ FullPair(last.held)
    /\ PublicKeyOnly(Subject) /\ SameModulus(Subject)
    /\ Subject.publicKey.mod # last.held.publicKey.mod


(***************************************************************************)
(* The steps of one generateKeyPair: the claim C31                         *)
(***************************************************************************)
\* the call in slot c is one of generateKeyPair
Generating(c) == calls[c] # Idle /\ calls[c].op = "generateKeyPair"

\* the steps of the call in slot c that are done, by the callback it waits for
Ordered(c) ==
    LET call == calls[c]
        keys == call.keys
        withPassword == call.args[1] # Null
        generated == IsCryptoKey(keys.public)
        exportedAll ==
            /\ IsStr(keys.publicExport)
            /\ withPassword => call.privateKeyJWK # Undefined
        sealed ==
            /\ IsCryptoKey(keys.private)
            /\ withPassword => ~keys.private.extractable
            /\ withPassword <=> IsStr(keys.privateExport)
        written ==
            /\ Connected
            /\ stores[db.connection.name][call.key] = keys
    IN  /\ call.pc = "gen1" => keys = NoKeys /\ call.privateKeyJWK = Undefined
        /\ call.pc \in {"gen2", "gen3"} => generated /\ keys.publicExport = Undefined
        /\ (call.privateKeyJWK # Undefined \/ keys.publicExport # Undefined) => generated
        /\ call.pc \in {"open", "put", "gen6"} => generated /\ exportedAll /\ sealed
        /\ call.pc \in {"open", "put"} => ~written
        /\ call.pc = "gen6" => written

\* a step gives key fields to the session of the call in slot c
Assigns(c) ==
    /\ KeyFields(sess'[calls[c].sess]) # KeyFields(sess[calls[c].sess])
    /\ ~Empty(sess'[calls[c].sess])

\* C31: in a call of generateKeyPair no key is exported before the pair is
\* generated; the write to the Key Store is issued when the keys are exported
\* and, with a password, the private key is imported again, not extractable,
\* and encrypted; the session takes its four fields in one step, when the
\* record is written; until then hasPublicKey and hasKeyPair are false
C31_StepsInOrder ==
    /\ [](\A c \in Slots : Generating(c) =>
            /\ Ordered(c)
            /\ ~hasPublicKey(sess[calls[c].sess]) /\ ~hasKeyPair(sess[calls[c].sess]))
    /\ [][\A c \in Slots : Generating(c) /\ Assigns(c) =>
            /\ calls[c].pc = "gen6" /\ Ordered(c)
            /\ calls'[c] = Idle
            /\ KeyFields(sess'[calls[c].sess]) =
                    <<calls[c].keys.public, calls[c].keys.private,
                      calls[c].keys.publicExport, calls[c].keys.privateExport>>]_vars

\* generateKeyPair with a password waits for its record to be written, in a
\* session that held a key-pair and holds none now
C31_Witness ==
    \E c \in Slots :
        /\ Generating(c) /\ calls[c].pc = "put"
        /\ calls[c].args[1] # Null
        /\ IsStr(calls[c].keys.privateExport)
        /\ hasKeyPair(calls[c].held)
        /\ Empty(sess[calls[c].sess])


(***************************************************************************)
(* The version tag: the claims C32 and C33                                 *)
(***************************************************************************)
\* encryptObject or encryptData has resolved with a string made with `version`
Made(op) == Settled(op) /\ last.out.kind = "resolved"
MadeMessage == last.out.v.message.s
MadeString == last.out.v.s

\* the string starts with the digit of the version and "$"
Tagged(str, version) ==
    /\ Len(str) > 2
    /\ SubSeq(str, 1, 2) = <<Ch(48 + version), Ch(36)>>
    /\ VersionTag(str).matched /\ VersionTag(str).version = version

\* the string is the legacy form: it has no tag
Bare(str) == Len(str) > 0 /\ ~VersionTag(str).matched

DecryptedString ==
    /\ Settled("decryptData")
    /\ sym # Null
    /\ last.args = <<Str(sym.str), Str(sym.password)>>

\* the tag of the string names a version that is neither 1 nor 2
OtherVersion(str) == VersionTag(str).matched /\ VersionTag(str).version \notin {1, 2}

\* C33: decryptData and decryptObject take a string without a tag for one of
\* version 1: the bare string the earlier encryptData made with version 1
\* decrypts to its data under its password, the bare message the earlier
\* encryptObject made with version 1 decrypts to its object in a session with
\* the key-pair; a string whose tag names another version than 1 and 2 is
\* not decrypted
C33_LegacyDecrypts ==
    /\ (DecryptedString /\ Bare(sym.str) /\ sym.version = 1)
            => last.out = Resolved(Str(sym.data))
    /\ (DecryptedEnvelope /\ Bare(env.message) /\ env.version = 1 /\ HoldsPair(env.mod))
            => last.out = Resolved(env.obj)
    /\ (Settled("decryptData") /\ OtherVersion(last.args[1].s))
            => last.out.kind \in {"rejected", "thrown"}
    /\ (Settled("decryptObject") /\ OtherVersion(last.args[2].s))
            => last.out.kind \in {"rejected", "thrown"}

(***************************************************************************)
(* The session and its record under one access path: the claim C34         *)
(***************************************************************************)
\* the session holds a key-pair and the Key Store holds a record under the
\* access path with the public key string of the session
PairIsStored(s) ==
    /\ RecordOf(s) # Null
    /\ RecordOf(s).publicExport = getPublicKeyString(sess[s])

\* C34: in one session that keeps its access path, with generateKeyPair,
\* loadKeyPair, importPublicKey, importPrivateKey and removeKeyPair called one
\* after the other, resolving or rejecting: whenever no call is in flight and
\* hasKeyPair() is true, the Key Store holds a record under the access path
\* whose public export is getPublicKeyString()
C34_PairHasRecord ==
    \A s \in DbNames :
        (Exists(s) /\ AllIdle /\ hasKeyPair(sess[s])) => PairIsStored(s)

\* importPrivateKey has failed with a wrong password in a session that holds a
\* key-pair, and the session still holds it, with its record
C34_Witness ==
    /\ Settled("importPrivateKey") /\ last.out = Resolved(Bool(FALSE))
    /\ hasKeyPair(last.held)
    /\ hasKeyPair(Subject) /\ PairIsStored(last.sess)

(***************************************************************************)
(* removeKeyPair while a call writes the record: the claim C35             *)
(***************************************************************************)
\* the session holds the key-pair of the record under its access path
HoldsRecord(s) ==
    /\ hasKeyPair(sess[s])
    /\ getPublicKeyString(sess[s]) = RecordOf(s).publicExport

\* the session and the Key Store agree
Agree(s) ==
    /\ hasKeyPair(sess[s]) => PairIsStored(s)
    /\ RecordOf(s) # Null => HoldsRecord(s)

\* C35: removeKeyPair is called while generateKeyPair or importPrivateKey is in
\* flight in the session; when all calls have settled, hasKeyPair() is true
\* only if a record with the same public export is under the access path, and
\* a record is under the access path only if the session holds that key-pair
C35_RemoveAgrees ==
    \A s \in DbNames : (Exists(s) /\ AllIdle) => Agree(s)

(***************************************************************************)
(* The Key Store settles its promises: the claim C36                       *)
(***************************************************************************)
\* a call of op is in flight
InFlight(op) == \E c \in Slots : calls[c] # Idle /\ calls[c].op = op

\* C36: every operation of the Key Store settles its promise, it resolves when
\* the request succeeds and rejects when the open request, the transaction or
\* the request reports an error; so every generateKeyPair, loadKeyPair,
\* importPrivateKey and removeKeyPair call is settled in the end, provided the
\* crypto provider answers
C36_CallsSettle ==
    \A op \in {"generateKeyPair", "loadKeyPair", "importPrivateKey", "removeKeyPair"} :
        InFlight(op) ~> AllIdle

(***************************************************************************)
(* Sessions of two databases: the claim C37                                *)
(***************************************************************************)
\* call c waits for a get, put or delete request of the Key Store
Requests(c) == calls[c] # Idle /\ calls[c].pc \in {"put", "get", "delete"}

\* C37: sessions served for different database names are isolated: every
\* read, write and delete of the Key Store a session of serveFullObject( A )
\* issues goes to the database named A, also after serveFullObject( B ) for
\* another name B
C37_OwnDatabase ==
    \A c \in Slots : Requests(c) => db.connection = sess[calls[c].sess].dbName

(***************************************************************************)
(* generateKeyPair and a provider that fails: the claim C38                *)
(***************************************************************************)
\* generateKeyPair has passed its checks of the argument and of the service,
\* and has rejected
ProviderFailed ==
    /\ Settled("generateKeyPair") /\ last.out.kind = "rejected"
    /\ Bound(Subject)
    /\ last.args[1] = Null \/ Len(last.args[1].s) > 0

\* what loadKeyPair would make of the record: the key-pair the call found
Restores(held) ==
    LET loaded == TakeRecord(Subject, SubjectRecord)
    IN  /\ hasKeyPair(loaded)
        /\ loaded.publicKey = held.publicKey
        /\ loaded.privateKey = held.privateKey
        /\ getPublicKeyString(loaded) = getPublicKeyString(held)
        /\ getPrivateKeyString(loaded) = getPrivateKeyString(held)

\* a generateKeyPair call changes the Key Store with its last request only:
\* no answer it waits for has failed, and what follows assigns the fields
WritesLast(c) ==
    (Generating(c) /\ stores' # stores) =>
        /\ ~Failed(c) /\ calls[c].pc = "put"
        /\ calls'[c] # Idle /\ calls'[c].pc = "gen6" /\ calls'[c].await.ok

\* C38: generateKeyPair passes its checks and a later step of the provider
\* (generateKey, exportKey, importKey, the encryption of the private key)
\* fails: the call rejects, the four fields are null, nothing is written to
\* the Key Store and the record under the access path is as it was, so that
\* loadKeyPair restores the key-pair the session held; the store never gets a
\* bundle in part
C38_FailureLeavesStore ==
    /\ [](ProviderFailed =>
            /\ Empty(Subject)
            /\ hasKeyPair(last.held) => Restores(last.held))
    /\ [](\A c \in Slots : (Generating(c) /\ Failed(c)) => calls[c].pc # "gen6")
    /\ [][\A c \in Slots : WritesLast(c)]_vars
    /\ [][\A c \in Slots : (Generating(c) /\ Failed(c) /\ calls'[c] # calls[c]) =>
                /\ calls'[c] = Idle /\ last'.out = Rejected(calls[c].await.e)
                /\ stores' = stores]_vars

\* exportKey of the public key has failed in a session that held a key-pair:
\* the fields are null and the record of the pair is in the Key Store
C38_Witness ==
    /\ ProviderFailed /\ last.out = Rejected("OperationError")
    /\ hasKeyPair(last.held) /\ Empty(Subject)
    /\ SubjectRecord # Null /\ Restores(last.held)

(***************************************************************************)
(* The password hashes of the browser and of Node.js: the claim C39        *)
(***************************************************************************)
\* the hash string a call of hashPassword gave, Null when it failed
HashGiven(out) == IF out.kind \in {"resolved", "returned"} THEN out.v ELSE Null

\* checkPassword gave true
Accepted(out) == out.kind \in {"resolved", "returned"} /\ out.v = Bool(TRUE)

\* hashPassword has been called with a salt, in the browser or in Node.js
HashedWithSalt == last # NoResult /\ last.op = "hashPassword" /\ last.args[2] # Null

\* checkPassword has been called with the hash string hashPassword made
CheckedOwnHash ==
    /\ last # NoResult /\ last.op = "checkPassword"
    /\ sym # Null /\ last.args[2] = Str(sym.str)

\* both implementations give the same hash string for the arguments of the call
SameHashString ==
    \A saltBuffer \in SaltBuffers :
        HashGiven(hashPassword(last.args[1], last.args[2], last.args[3].s, saltBuffer))
            = HashGiven(hashPasswordNode(last.args[1], last.args[2], last.args[3].s, saltBuffer))

\* both implementations accept the password of the call, or neither does
SameAcceptance ==
    Accepted(checkPassword(last.args[1], last.args[2]))
        <=> Accepted(checkPasswordNode(last.args[1], last.args[2]))

\* C39: the browser and Node.js agree on password hashes: hashPassword returns
\* the same hash string in both for every password, salt and encoding, and a
\* hash string either one made is accepted by checkPassword of the other for
\* the same passwords
C39_PlatformsAgree ==
    /\ HashedWithSalt => SameHashString
    /\ CheckedOwnHash => SameAcceptance

(***************************************************************************)
(* The calls that use the keys and change nothing: the claim C40           *)
(***************************************************************************)
\* the functions of a session that read its keys
ReadingOps ==
    {"checkExportPassword", "encryptObject", "decryptObject", "encryptData",
     "decryptData", "hasKeyPair", "hasPublicKey", "getPublicKeyString",
     "getPrivateKeyString"}

\* the step leaves the four key fields and the access path of every session,
\* and every record of the Key Store
KeysUntouched ==
    /\ \A s \in SessIds :
            /\ Exists(s) <=> sess'[s] # NoSession
            /\ Exists(s) =>
                    /\ KeyFields(sess'[s]) = KeyFields(sess[s])
                    /\ sess'[s].accessPath = sess[s].accessPath
    /\ stores' = stores

\* C40: checkExportPassword, encryptObject, decryptObject, encryptData,
\* decryptData, hasKeyPair, hasPublicKey, getPublicKeyString and
\* getPrivateKeyString never change the four key fields of the session, its
\* access path or a record of the Key Store, whether they give a value, false
\* or null, reject or throw
C40_ReadersChangeNothing ==
    [][\A op \in ReadingOps : StepOf(op) => KeysUntouched]_vars

\* getPrivateKeyString has returned null in a session that holds a key-pair
\* made without a password, whose privateKeyExport is undefined, and whose
\* record is in the Key Store
C40_Witness ==
    /\ Settled("getPrivateKeyString") /\ last.out = Returned(Null)
    /\ hasKeyPair(Subject) /\ Subject.privateKeyExport = Undefined
    /\ KeyFields(Subject) = KeyFields(last.held)
    /\ SubjectRecord # Null

====
